---- MODULE Spec2Model ----
(***************************************************************************)
(* Model of the cache-handlers package of ascorbic/cache-primitives.       *)
(*                                                                         *)
(* Part I  (SpecMeta): the metadata index update protocol of metadata.ts:  *)
(*   atomicMetadataUpdate / tryAcquireLock / releaseLock /                 *)
(*   updateTagMetadata, run by concurrent updaters that share one store.   *)
(*   Every `await` of a store operation is a suspension point: one action  *)
(*   is the effect of the awaited store operation followed by the code     *)
(*   that runs up to the next awaited store operation.                     *)
(*                                                                         *)
(* Part II (SpecHandle): the unified handler of handlers.ts together with  *)
(*   readFromCache (read.ts) and writeToCache (write.ts).                  *)
(*                                                                         *)
(* Part III (SpecParse), Part V (SpecKey): the pure functions              *)
(*   parseResponseHeaders and defaultGetCacheKey of utils.ts.              *)
(* Part IV (SpecInval): writes and invalidations, one at a time.           *)
(* Part VI (SpecEntry): the entry points, by request method and tags.      *)
(* Part VII (SpecConcurrent): invalidateByTag concurrent with Part I.      *)
(* SpecMetaFair is SpecMeta with every await settling eventually.          *)
(*                                                                         *)
(* Store operations (match / put / delete) may raise, as the FailingCache  *)
(* of the test-suite does; the number of injected failures is bounded.     *)
(***************************************************************************)
EXTENDS Integers, Sequences, FiniteSets, TLC

(***************************************************************************)
(* Program constants (metadata.ts)                                         *)
(***************************************************************************)
METADATA_LOCK_TIMEOUT == 5000
MAX_RETRY_ATTEMPTS == 5
RETRY_BASE_DELAY == 10

(***************************************************************************)
(* Bounds of Part I                                                        *)
(***************************************************************************)
NumWriters == 2
MaxFaults == 1
MaxTicksMeta == 1

Writers == 1..NumWriters
Tags == {"t"}
\* updater w adds the cache key w
KeyOf(w) == w

(***************************************************************************)
(* Bounds of Part II                                                       *)
(***************************************************************************)
NumReq == 2
MaxFaultsHandle == 1
MaxTicksHandle == 4

Req == 1..NumReq
\* the background revalidation task spawned by request r
TaskOf(r) == r + NumReq
Tasks == {TaskOf(r) : r \in Req}
Threads == Req \cup Tasks
\* the request on whose behalf a thread runs
ReqOf(th) == IF th \in Req THEN th ELSE th - NumReq

VARIABLES
    now,        \* Date.now(), in ms
    faults,     \* store failures injected so far
    lockRec,    \* the lock record stored under lockKey
    tagIndex,   \* the record stored under METADATA_KEY
    wpc,        \* position of each updater inside atomicMetadataUpdate
    attempt,    \* local `attempt`
    seenLock,   \* local `existingLock` of tryAcquireLock
    lockData,   \* local `lockData` being put
    updatedData,\* local `updatedData` being put
    failed,     \* an exception is propagating through `finally`
    delay,      \* argument of the pending sleep()
    progress,   \* history: "none", "acquired" (some tryAcquireLock call
                \*   returned true) or "wrote" (the index put succeeded)
    held,       \* history of the last acquired lock: "no" (none, or deleted
                \*   by releaseLock), "yes" (acquired), "releasing"
                \*   (releaseLock called), "leaked" (its delete failed)
    \* ---- Part II ----
    cfg,        \* CacheConfig / CacheInvokeOptions: swr policy, handler,
                \*   runInBackground
    entry,      \* the store's entry under the request's cache key
    pc,         \* position of each request (in handle) and of each task
    hdrs,       \* the conditional headers of each request
    snap,       \* local `cachedResponse` as returned by cache.match
    readAt,     \* local `now` of readFromCache
    readOut,    \* what readFromCache returned: "pending", "null", "entry", "304"
    needsBG,    \* needsBackgroundRevalidation as returned by readFromCache
    readDeleted,\* history: the cache.delete of readFromCache took effect
    calls,      \* history: origin handler invocations <<[mode, background]>>
    sched,      \* history: calls of the runInBackground scheduler
    micro,      \* history: queueMicrotask calls
    threw,      \* history: the origin handler invoked for the request threw
    resp,       \* the origin response a thread passes to writeToCache
    wexp,       \* local `expiresAt` of writeToCache, as the Expires header
    taskPut,    \* history: the cache.put of the task's writeToCache took effect
    result,     \* the response handle() resolved with
    \* ---- Part III ----
    fin,        \* the arguments of a call of a pure function
    fout,       \* what the call returned (<<>> before the call)
    \* ---- Part IV ----
    store,      \* the entries of the store, by cache key
    op,         \* the running or last write / invalidation and its locals
    prev        \* history: the operation before op

envVars == <<now, faults>>
wVars == <<wpc, attempt, seenLock, lockData, updatedData, failed, delay,
           progress, held>>
metaVars == <<lockRec, tagIndex, wVars>>

hVars == <<cfg, entry, pc, hdrs, snap, readAt, readOut, needsBG, readDeleted,
           calls, sched, micro, threw, resp, wexp, taskPut, result>>

\* the variables of Part III and Part IV
xVars == <<fin, fout, store, op, prev>>

vars == <<envVars, metaVars, hVars, xVars>>

NoLock == [present |-> FALSE, timestamp |-> 0, pid |-> 0]
EmptyMap == [t \in Tags |-> <<>>]
\* the stored index record: absent, unparseable, or a JSON map tag -> keys
\* (a tag that maps to the empty sequence is a tag that is not in the map)
AbsentIndex == [state |-> "absent", map |-> EmptyMap]
CorruptIndex == [state |-> "corrupt", map |-> EmptyMap]
OkIndex(m) == [state |-> "ok", map |-> m]

Includes(seq, x) == \E i \in 1..Len(seq) : seq[i] = x

\* errors.ts safeJsonParse: the default value on absence or parse failure
safeJsonParse(rec, defaultValue) ==
    IF rec.state = "ok" THEN rec.map ELSE defaultValue

\* (mutant) the update function returns the map it was given
updateTagFnNoop(metadata, tags, cacheKey) == metadata

\* (mutant) the key is appended whether or not the key-set holds it
updateTagFnAppend(metadata, tags, cacheKey) ==
    [t \in DOMAIN metadata |->
        IF t \in tags THEN Append(metadata[t], cacheKey) ELSE metadata[t]]

\* the updateFn of updateTagMetadata
updateTagFn(metadata, tags, cacheKey) ==
    [t \in DOMAIN metadata |->
        IF t \in tags /\ ~Includes(metadata[t], cacheKey)
        THEN Append(metadata[t], cacheKey)
        ELSE metadata[t]]

Pow2(n) == 2 ^ n
\* (mutant) the delay grows by RETRY_BASE_DELAY per attempt
sleepLinear(a) == RETRY_BASE_DELAY * (a + 1)

sleep(a) == RETRY_BASE_DELAY * Pow2(a)

CanFail == faults < MaxFaults

(***************************************************************************)
(* Part II: values                                                         *)
(***************************************************************************)
\* a parsed Cache-Control header value (utils.ts parseCacheControl): the
\* numeric directives are -1 when the directive is absent or not a number
NoCC == [present |-> FALSE, maxAge |-> -1, swr |-> -1,
         private |-> FALSE, noCache |-> FALSE, noStore |-> FALSE]
CC(maxAge, swr) == [present |-> TRUE, maxAge |-> maxAge, swr |-> swr,
                    private |-> FALSE, noCache |-> FALSE, noStore |-> FALSE]
NoStoreCC == [present |-> TRUE, maxAge |-> -1, swr |-> -1,
              private |-> FALSE, noCache |-> FALSE, noStore |-> TRUE]

\* an ETag header value as parseETag reads it; NoETag is the absent header
NoETag == [weak |-> FALSE, value |-> ""]
StrongETag(v) == [weak |-> FALSE, value |-> v]

\* a stored or origin response; expires and lastModified are ms, -1 if absent.
\* ttlEnd is history: the time Date.now() + ttl * 1000 that writeToCache
\* computed for the entry, before formatting it as the Expires header
\* (-1 for a response that writeToCache has not processed)
NoEntry == [present |-> FALSE, body |-> 0, expires |-> -1, cc |-> NoCC,
            etag |-> NoETag, lastModified |-> -1, tags |-> <<>>,
            ttlEnd |-> -1]
Response(body, cc, etag, tags) ==
    [present |-> TRUE, body |-> body, expires |-> -1, cc |-> cc,
     etag |-> etag, lastModified |-> -1, tags |-> tags, ttlEnd |-> -1]

\* the responses the origin handler may resolve with, for request r
OriginResponses(r) ==
    { Response(r, CC(1, 1), StrongETag("v1"), <<>>),
      Response(r, CC(1, -1), NoETag, <<"t">>),
      Response(r, NoStoreCC, NoETag, <<>>) }

\* an entry put into the store before the first request, as the tests do:
\* Expires one second after time 0, max-age=1, stale-while-revalidate=1
SeededEntry ==
    [Response(0, CC(1, 1), StrongETag("v1"), <<>>) EXCEPT !.expires = 1000]

\* the conditional headers of a request: If-None-Match is absent ("none"),
\* "*" ("star") or a list of ETags; If-Modified-Since is ms, -1 if absent
NoConditional == [inm |-> "none", etags |-> <<>>, ims |-> -1]
IfNoneMatch(list) == [inm |-> "list", etags |-> list, ims |-> -1]
RequestHeaders ==
    { NoConditional,
      IfNoneMatch(<<StrongETag("v1")>>),
      IfNoneMatch(<<StrongETag("v2")>>) }

NoResult == [kind |-> "none", body |-> 0]

\* Part III while no pure function is being called
PureIdle == fin = <<>> /\ fout = <<>>

\* Part IV while no write or invalidation is modelled
InvalIdle == store = <<>> /\ op = <<>> /\ prev = <<>>

\* Part II while no handler has been created: no request, no task
HandleIdle ==
    /\ cfg = [policy |-> "background", hasHandler |-> FALSE,
              hasScheduler |-> FALSE]
    /\ entry = NoEntry
    /\ pc = <<>>
    /\ hdrs = <<>>
    /\ snap = <<>>
    /\ readAt = <<>>
    /\ readOut = <<>>
    /\ needsBG = <<>>
    /\ readDeleted = <<>>
    /\ calls = <<>>
    /\ sched = <<>>
    /\ micro = <<>>
    /\ threw = <<>>
    /\ resp = <<>>
    /\ wexp = <<>>
    /\ taskPut = <<>>
    /\ result = <<>>

(***************************************************************************)
(* Part I: the metadata index update protocol                              *)
(***************************************************************************)
\* Every updater has called updateTagMetadata(cache, METADATA_KEY, Tags,
\* KeyOf(w)): attempt = 0 and the first tryAcquireLock is about to read the lock
InitMeta ==
    /\ now = 0
    /\ faults = 0
    /\ lockRec = NoLock
    /\ tagIndex \in {AbsentIndex, CorruptIndex}
    /\ wpc = [w \in Writers |-> "acq_match"]
    /\ attempt = [w \in Writers |-> 0]
    /\ seenLock = [w \in Writers |-> NoLock]
    /\ lockData = [w \in Writers |-> NoLock]
    /\ updatedData = [w \in Writers |-> EmptyMap]
    /\ failed = [w \in Writers |-> FALSE]
    /\ delay = [w \in Writers |-> 0]
    /\ progress = [w \in Writers |-> "none"]
    /\ held = [w \in Writers |-> "no"]
    /\ HandleIdle
    /\ PureIdle
    /\ InvalIdle

\* tryAcquireLock returned false: sleep(RETRY_BASE_DELAY * 2^attempt)
AcquireFailed(w) ==
    /\ wpc' = [wpc EXCEPT ![w] = "sleep_retry"]
    /\ delay' = [delay EXCEPT ![w] = sleep(attempt[w])]

\* (mutant) falling out of the while loop returns instead of throwing
LoopHeadReturns(w, a) ==
    wpc' = [wpc EXCEPT ![w] =
               IF a < MAX_RETRY_ATTEMPTS THEN "acq_match" ELSE "returned"]

\* the head of the while loop: attempt < maxRetries, else throw
LoopHead(w, a) ==
    wpc' = [wpc EXCEPT ![w] =
               IF a < MAX_RETRY_ATTEMPTS THEN "acq_match" ELSE "raised"]

\* tryAcquireLock: await cache.match(lockKey)
AcqMatch(w) ==
    /\ wpc[w] = "acq_match"
    /\ \/ \* the store raises: caught, tryAcquireLock returns false
          /\ CanFail
          /\ faults' = faults + 1
          /\ AcquireFailed(w)
          /\ UNCHANGED <<seenLock, lockData>>
       \/ \* a lock record exists: await existingLock.json()
          /\ lockRec.present
          /\ seenLock' = [seenLock EXCEPT ![w] = lockRec]
          /\ wpc' = [wpc EXCEPT ![w] = "acq_json"]
          /\ UNCHANGED <<faults, lockData, delay>>
       \/ \* no lock record: build lockData and call cache.put
          /\ ~lockRec.present
          /\ lockData' = [lockData EXCEPT ![w] =
                 [present |-> TRUE, timestamp |-> now, pid |-> w]]
          /\ wpc' = [wpc EXCEPT ![w] = "acq_put"]
          /\ UNCHANGED <<faults, seenLock, delay>>
    /\ UNCHANGED <<hVars, xVars, now, lockRec, tagIndex, attempt, updatedData, failed,
                   progress, held>>

\* (mutant) a record exactly METADATA_LOCK_TIMEOUT old is still valid
LockStillValidInclusive(timestamp, t) ==
    t - timestamp <= METADATA_LOCK_TIMEOUT

\* metadata.ts line 97: now - lockData.timestamp < METADATA_LOCK_TIMEOUT
LockStillValid(timestamp, t) == t - timestamp < METADATA_LOCK_TIMEOUT

\* tryAcquireLock: the existing lock was read; is it still valid?
AcqJson(w) ==
    /\ wpc[w] = "acq_json"
    /\ IF LockStillValid(seenLock[w].timestamp, now)
       THEN /\ AcquireFailed(w)
            /\ UNCHANGED lockData
       ELSE /\ lockData' = [lockData EXCEPT ![w] =
                   [present |-> TRUE, timestamp |-> now, pid |-> w]]
            /\ wpc' = [wpc EXCEPT ![w] = "acq_put"]
            /\ UNCHANGED delay
    /\ seenLock' = [seenLock EXCEPT ![w] = NoLock]
    /\ UNCHANGED <<hVars, xVars, envVars, lockRec, tagIndex, attempt, updatedData, failed,
                   progress, held>>

\* tryAcquireLock: await cache.put(lockKey, lockData); on success the
\* update cycle begins with cache.match(metadataKey)
AcqPut(w) ==
    /\ wpc[w] = "acq_put"
    /\ \/ /\ CanFail
          /\ faults' = faults + 1
          /\ AcquireFailed(w)
          /\ UNCHANGED <<lockRec, progress, held>>
       \/ /\ lockRec' = lockData[w]
          /\ progress' = [progress EXCEPT ![w] =
                              IF @ = "none" THEN "acquired" ELSE @]
          /\ held' = [held EXCEPT ![w] = "yes"]
          /\ wpc' = [wpc EXCEPT ![w] = "read_meta"]
          /\ UNCHANGED <<faults, delay>>
    /\ lockData' = [lockData EXCEPT ![w] = NoLock]
    /\ UNCHANGED <<hVars, xVars, now, tagIndex, attempt, seenLock, updatedData, failed>>

\* (mutant) the lock is released on the success path only: an exception of
\* the update cycle propagates without releaseLock being called
EnterFinallyOnSuccessOnly(w, err) ==
    /\ failed' = [failed EXCEPT ![w] = FALSE]
    /\ held' = [held EXCEPT ![w] = IF err THEN @ ELSE "releasing"]
    /\ wpc' = [wpc EXCEPT ![w] = IF err THEN "raised" ELSE "release"]

\* the finally block is entered: releaseLock calls cache.delete(lockKey)
EnterFinally(w, err) ==
    /\ failed' = [failed EXCEPT ![w] = err]
    /\ held' = [held EXCEPT ![w] = "releasing"]
    /\ wpc' = [wpc EXCEPT ![w] = "release"]

\* await cache.match(metadataKey); safeJsonParse; updateFn; call cache.put
ReadMeta(w) ==
    /\ wpc[w] = "read_meta"
    /\ \/ /\ CanFail
          /\ faults' = faults + 1
          /\ EnterFinally(w, TRUE)
          /\ UNCHANGED updatedData
       \/ /\ updatedData' = [updatedData EXCEPT ![w] =
                 updateTagFn(safeJsonParse(tagIndex, EmptyMap), Tags, KeyOf(w))]
          /\ wpc' = [wpc EXCEPT ![w] = "write_meta"]
          /\ UNCHANGED <<faults, failed, held>>
    /\ UNCHANGED <<hVars, xVars, now, lockRec, tagIndex, attempt, seenLock, lockData,
                   delay, progress>>

\* await cache.put(metadataKey, updatedData); return (through finally)
WriteMeta(w) ==
    /\ wpc[w] = "write_meta"
    /\ \/ /\ CanFail
          /\ faults' = faults + 1
          /\ EnterFinally(w, TRUE)
          /\ UNCHANGED <<tagIndex, progress>>
       \/ /\ tagIndex' = OkIndex(updatedData[w])
          /\ progress' = [progress EXCEPT ![w] = "wrote"]
          /\ EnterFinally(w, FALSE)
          /\ UNCHANGED faults
    /\ updatedData' = [updatedData EXCEPT ![w] = EmptyMap]
    /\ UNCHANGED <<hVars, xVars, now, lockRec, attempt, seenLock, lockData, delay>>

\* what follows the finally block: the return completes, or the catch block
\* of the attempt runs (attempt++, critical error or sleep)
AfterFinally(w) ==
    IF ~failed[w]
    THEN /\ wpc' = [wpc EXCEPT ![w] = "returned"]
         /\ UNCHANGED <<attempt, delay>>
    ELSE /\ attempt' = [attempt EXCEPT ![w] = @ + 1]
         /\ IF attempt[w] + 1 >= MAX_RETRY_ATTEMPTS
            THEN \* handleCriticalError throws
                 /\ wpc' = [wpc EXCEPT ![w] = "raised"]
                 /\ UNCHANGED delay
            ELSE /\ wpc' = [wpc EXCEPT ![w] = "sleep_err"]
                 /\ delay' = [delay EXCEPT ![w] = sleep(attempt[w] + 1)]

\* releaseLock: await cache.delete(lockKey), a failure of which is swallowed
releaseLock(w) ==
    /\ wpc[w] = "release"
    /\ \/ /\ CanFail
          /\ faults' = faults + 1
          /\ held' = [held EXCEPT ![w] = "leaked"]
          /\ UNCHANGED lockRec
       \/ /\ lockRec' = NoLock
          /\ held' = [held EXCEPT ![w] = "no"]
          /\ UNCHANGED faults
    /\ AfterFinally(w)
    /\ failed' = [failed EXCEPT ![w] = FALSE]
    /\ UNCHANGED <<hVars, xVars, now, tagIndex, seenLock, lockData, updatedData, progress>>

\* the sleep after a failed acquire resolves: attempt++; continue
WakeRetry(w) ==
    /\ wpc[w] = "sleep_retry"
    /\ attempt' = [attempt EXCEPT ![w] = @ + 1]
    /\ delay' = [delay EXCEPT ![w] = 0]
    /\ LoopHead(w, attempt[w] + 1)
    /\ UNCHANGED <<hVars, xVars, envVars, lockRec, tagIndex, seenLock, lockData,
                   updatedData, failed, progress, held>>

\* the sleep at the end of the catch block resolves: next loop iteration
WakeErr(w) ==
    /\ wpc[w] = "sleep_err"
    /\ delay' = [delay EXCEPT ![w] = 0]
    /\ LoopHead(w, attempt[w])
    /\ UNCHANGED <<hVars, xVars, envVars, lockRec, tagIndex, attempt, seenLock, lockData,
                   updatedData, failed, progress, held>>

\* A timestamp that is not yet METADATA_LOCK_TIMEOUT old is held in the lock
\* record or in a local of tryAcquireLock: only then does the passing of time
\* change the outcome of a comparison.
Fresh(rec) == rec.present /\ now - rec.timestamp < METADATA_LOCK_TIMEOUT

TimestampLive ==
    \/ Fresh(lockRec)
    \/ \E w \in Writers : Fresh(seenLock[w]) \/ Fresh(lockData[w])

\* Time passes.  The clock is observed at the resolution of the lock timeout;
\* the sleeps of the retry loop (at most 160 ms) are shorter than
\* that and resolve at any later step.
TickMeta ==
    /\ TimestampLive
    /\ now + METADATA_LOCK_TIMEOUT <= MaxTicksMeta * METADATA_LOCK_TIMEOUT
    /\ now' = now + METADATA_LOCK_TIMEOUT
    /\ UNCHANGED <<hVars, xVars, faults, metaVars>>

NextMeta ==
    \/ \E w \in Writers : AcqMatch(w)
    \/ \E w \in Writers : AcqJson(w)
    \/ \E w \in Writers : AcqPut(w)
    \/ \E w \in Writers : ReadMeta(w)
    \/ \E w \in Writers : WriteMeta(w)
    \/ \E w \in Writers : releaseLock(w)
    \/ \E w \in Writers : WakeRetry(w)
    \/ \E w \in Writers : WakeErr(w)
    \/ TickMeta

SpecMeta == InitMeta /\ [][NextMeta]_vars

\* the steps of updater w: each is the resolution of an await
WriterStep(w) ==
    \/ AcqMatch(w) \/ AcqJson(w) \/ AcqPut(w)
    \/ ReadMeta(w) \/ WriteMeta(w) \/ releaseLock(w)
    \/ WakeRetry(w) \/ WakeErr(w)

\* Every store operation settles (it resolves or rejects) and every timer
\* fires: an updater that can take a step eventually takes it.  Nothing is
\* assumed about the passing of time.
SpecMetaFair == SpecMeta /\ \A w \in Writers : WF_vars(WriterStep(w))

Finished(w) == wpc[w] \in {"returned", "raised"}

\* the key-set of tag t in the stored index
KeySet(t) == safeJsonParse(tagIndex, EmptyMap)[t]

(***************************************************************************)
(* Part II: pure functions of utils.ts, conditional.ts, read.ts, write.ts  *)
(***************************************************************************)
MsPerSecond == 1000
\* the resolution of the model's clock
HalfSecond == MsPerSecond \div 2

CanFailHandle == faults < MaxFaultsHandle

\* write.ts formats the expiry with Date.prototype.toUTCString, which has a
\* resolution of one second; read.ts parses the header with new Date(...)
ExpiresRoundTrip(t) == (t \div MsPerSecond) * MsPerSecond

\* the part of CacheConfig that parseResponseHeaders reads: defaultTtl and
\* maxTtl (0 when not configured) and the feature flags
DefaultConfig == [defaultTtl |-> 0, maxTtl |-> 0,
                  cacheControl |-> TRUE, cdnCacheControl |-> TRUE]

\* utils.ts lines 301-303: result.shouldCache && !result.ttl &&
\* config.defaultTtl; !result.ttl holds for a missing and for a zero max-age
ApplyDefaultTtl(shouldCache, ttl, defaultTtl) ==
    IF shouldCache /\ (ttl = -1 \/ ttl = 0) /\ defaultTtl # 0
    THEN defaultTtl ELSE ttl

\* (mutant) a configured default TTL counts as a caching signal
HasExplicitOrDefault(final, tags, expires, config) ==
    final.present \/ Len(tags) > 0 \/ expires # -1 \/ config.defaultTtl # 0

\* utils.ts lines 293-295: hasExplicitCacheHeaders
HasExplicitCacheHeaders(final, tags, expires, config) ==
    final.present \/ Len(tags) > 0 \/ expires # -1

\* utils.ts parseResponseHeaders on a response with the cache-control value
\* cc, the cdn-cache-control value cdn, the cache-tag list tags and the
\* Expires header expires
ParsedCacheHeaders(cc, cdn, tags, expires, config) ==
    LET cacheControlHeader == IF config.cacheControl THEN cc ELSE NoCC
        cdnCacheControlHeader == IF config.cdnCacheControl THEN cdn ELSE NoCC
        finalCacheControl == IF cdnCacheControlHeader.present
                             THEN cdnCacheControlHeader
                             ELSE cacheControlHeader
        maxAge == IF finalCacheControl.present
                  THEN finalCacheControl.maxAge ELSE -1
        allowed == /\ HasExplicitCacheHeaders(finalCacheControl, tags,
                                              expires, config)
                   /\ ~finalCacheControl.private
                   /\ ~finalCacheControl.noCache
                   /\ ~finalCacheControl.noStore
        ttl == ApplyDefaultTtl(allowed, maxAge, config.defaultTtl)
    IN  [shouldCache |-> allowed /\ ttl > 0,
         ttl |-> IF ttl > 0 /\ config.maxTtl # 0 /\ ttl > config.maxTtl
                 THEN config.maxTtl ELSE ttl,
         tags |-> tags]

\* utils.ts parseResponseHeaders, for the responses and the configuration of
\* Part II: no cdn-cache-control header, no defaultTtl / maxTtl configured
parseResponseHeaders(response) ==
    ParsedCacheHeaders(response.cc, NoCC, response.tags, response.expires,
                       DefaultConfig)

\* (mutant) any two ETags that are present compare equal
compareETagsAnyPresent(etag1, etag2, weakComparison) ==
    etag1 # NoETag /\ etag2 # NoETag

\* conditional.ts compareETags
compareETags(etag1, etag2, weakComparison) ==
    IF etag1 = NoETag \/ etag2 = NoETag THEN FALSE
    ELSE IF ~weakComparison /\ (etag1.weak \/ etag2.weak) THEN FALSE
    ELSE etag1.value = etag2.value

\* conditional.ts validateConditionalRequest under the default conditional
\* config (etag, lastModified, weakValidation all true): shouldReturn304
validateConditionalRequest(h, cachedResponse) ==
    IF h.inm = "none" /\ h.ims = -1 THEN FALSE
    ELSE
        LET etagMatches ==
                /\ h.inm # "none"
                /\ cachedResponse.etag # NoETag
                /\ \/ h.inm = "star"
                   \/ \E i \in 1..Len(h.etags) :
                          compareETags(cachedResponse.etag, h.etags[i], TRUE)
            modifiedSinceMatches ==
                /\ h.ims # -1
                /\ ~etagMatches
                /\ cachedResponse.lastModified # -1
                /\ cachedResponse.lastModified <= h.ims
        IN  etagMatches \/ modifiedSinceMatches

\* read.ts line 55: the Expires header is present, parses, and has passed
IsExpired(e, t) == e.expires # -1 /\ t >= e.expires

\* (mutant) the window is added to the expiry without converting to ms
InSwrWindowSeconds(e, t) ==
    e.cc.present /\ e.cc.swr > 0 /\ t < e.expires + e.cc.swr

\* read.ts lines 56-64: swrSeconds && now < expiresAt + swrSeconds * 1000
InSwrWindow(e, t) ==
    e.cc.present /\ e.cc.swr > 0 /\ t < e.expires + e.cc.swr * MsPerSecond

\* (mutant) a 304 keeps the revalidation flag computed before validation
ReadResultKeepsFlag(h, e, bg) ==
    IF validateConditionalRequest(h, e)
    THEN [out |-> "304", bg |-> bg]
    ELSE [out |-> "entry", bg |-> bg]

\* read.ts lines 74-93: what readFromCache returns for a kept entry
ReadResult(h, e, bg) ==
    IF validateConditionalRequest(h, e)
    THEN [out |-> "304", bg |-> FALSE]
    ELSE [out |-> "entry", bg |-> bg]

(***************************************************************************)
(* Part II: the unified handler                                            *)
(***************************************************************************)
Stale(e) == [kind |-> "stale", body |-> e.body]
Hit(e) == [kind |-> "hit", body |-> e.body]
NotModified == [kind |-> "304", body |-> 0]
FromOrigin(x) == [kind |-> "origin", body |-> x.body]
NoHandlerResponse == [kind |-> "500", body |-> 0]

Invocation(mode, background) == [mode |-> mode, background |-> background]

NoSubmit == [sched |-> 0, micro |-> 0]

\* (mutant) the task is handed to the scheduler and queued as a microtask
SubmitTaskTwice(hasScheduler) ==
    IF hasScheduler THEN [sched |-> 1, micro |-> 1]
    ELSE [sched |-> 0, micro |-> 1]

\* handlers.ts lines 73-77: scheduler(revalidatePromise) when a scheduler is
\* supplied, else queueMicrotask
SubmitTask(hasScheduler) ==
    IF hasScheduler THEN [sched |-> 1, micro |-> 0]
    ELSE [sched |-> 0, micro |-> 1]

\* a decision of handle(): the request's next position, the origin handler
\* invocation it makes, whether a background task starts, and the response
Return(res) ==
    [pc |-> "done", call |-> <<>>, spawn |-> FALSE, submit |-> NoSubmit,
     result |-> res]
Await(position, call) ==
    [pc |-> position, call |-> call, spawn |-> FALSE, submit |-> NoSubmit,
     result |-> NoResult]

\* (mutant) handle() awaits the revalidation before returning
BackgroundReturnAwaits(e) == [pc |-> "bg_wait", result |-> NoResult]

\* handlers.ts line 113: return cached, right after the task is submitted
BackgroundReturn(e) == [pc |-> "done", result |-> Stale(e)]

\* (mutant) the catch of the blocking policy rethrows
BlockingCatchRethrows(e) == [pc |-> "failed", result |-> NoResult]

\* handlers.ts lines 50-55 and 113: the catch logs, then return cached
BlockingCatch(e) == [pc |-> "done", result |-> Stale(e)]

\* handlers.ts lines 137-147: the miss path up to the awaited handler call
MissDispatch ==
    IF cfg.hasHandler
    THEN Await("miss_handler", <<Invocation("miss", FALSE)>>)
    ELSE Return(NoHandlerResponse)

\* (mutant) the off policy serves the stale entry like an unknown policy
OffPolicyServesStale(e) == Return(Stale(e))

\* handlers.ts lines 79-89: the off policy awaits the delete of the entry
OffPolicy(e) == Await("off_delete", <<>>)

\* handlers.ts lines 38-147: what handle() does with the result of
\* readFromCache, up to its next await
Dispatch(out, bg, e) ==
    IF out = "null" THEN MissDispatch
    ELSE IF ~bg
    THEN Return(IF out = "304" THEN NotModified ELSE Hit(e))
    ELSE IF cfg.policy = "blocking" /\ cfg.hasHandler
    THEN Await("blk_handler", <<Invocation("stale", FALSE)>>)
    ELSE IF cfg.policy = "background" /\ cfg.hasHandler
    THEN [pc |-> BackgroundReturn(e).pc,
          call |-> <<Invocation("stale", TRUE)>>,
          spawn |-> TRUE,
          submit |-> SubmitTask(cfg.hasScheduler),
          result |-> BackgroundReturn(e).result]
    ELSE IF cfg.policy = "off"
    THEN OffPolicy(e)
    ELSE Return(Stale(e))

\* request r takes decision d
Apply(r, d) ==
    /\ pc' = [pc EXCEPT ![r] = d.pc,
                        ![TaskOf(r)] = IF d.spawn THEN "t_handler" ELSE @]
    /\ calls' = [calls EXCEPT ![r] = @ \o d.call]
    /\ sched' = [sched EXCEPT ![r] = @ + d.submit.sched]
    /\ micro' = [micro EXCEPT ![r] = @ + d.submit.micro]
    /\ result' = [result EXCEPT ![r] = d.result]

\* in which try / catch a thread's handler call and writeToCache run
Context(th) ==
    IF th \in Tasks THEN "task"
    ELSE IF needsBG[th] /\ cfg.policy = "blocking" THEN "blocking"
    ELSE "miss"

\* the handler or writeToCache of thread th raised
Raise(th) ==
    IF Context(th) = "task" THEN [pc |-> "t_failed", result |-> NoResult]
    ELSE IF Context(th) = "blocking" THEN BlockingCatch(snap[th])
    ELSE [pc |-> "failed", result |-> NoResult]

\* writeToCache of thread th returned removeHeaders(response, ...)
WriteEnd(th, x) ==
    IF Context(th) = "task" THEN [pc |-> "t_done", result |-> NoResult]
    ELSE [pc |-> "done", result |-> FromOrigin(x)]

\* thread th moves on with outcome o = [pc, result]
Settle(th, o) ==
    /\ pc' = [pc EXCEPT ![th] = o.pc]
    /\ result' = IF th \in Req THEN [result EXCEPT ![th] = o.result]
                 ELSE result
    /\ resp' = [resp EXCEPT ![th] = NoEntry]
    /\ wexp' = [wexp EXCEPT ![th] = -1]

\* Part I while no metadata update is running: no updater
MetaIdle ==
    /\ lockRec = NoLock
    /\ tagIndex = AbsentIndex
    /\ wpc = <<>>
    /\ attempt = <<>>
    /\ seenLock = <<>>
    /\ lockData = <<>>
    /\ updatedData = <<>>
    /\ failed = <<>>
    /\ delay = <<>>
    /\ progress = <<>>
    /\ held = <<>>

\* createCacheHandler(options) has been called; the store is empty or holds
\* an entry put there directly, as the tests do; no request has been made
InitHandle ==
    /\ now = 0
    /\ faults = 0
    /\ MetaIdle
    /\ PureIdle
    /\ InvalIdle
    /\ cfg \in [policy : {"background", "blocking", "off"},
                hasHandler : BOOLEAN, hasScheduler : BOOLEAN]
    /\ entry \in {NoEntry, SeededEntry}
    /\ pc = [th \in Threads |-> IF th \in Req THEN "new" ELSE "t_none"]
    /\ hdrs = [r \in Req |-> NoConditional]
    /\ snap = [r \in Req |-> NoEntry]
    /\ readAt = [r \in Req |-> 0]
    /\ readOut = [r \in Req |-> "pending"]
    /\ needsBG = [r \in Req |-> FALSE]
    /\ readDeleted = [r \in Req |-> FALSE]
    /\ calls = [r \in Req |-> <<>>]
    /\ sched = [r \in Req |-> 0]
    /\ micro = [r \in Req |-> 0]
    /\ threw = [r \in Req |-> FALSE]
    /\ resp = [th \in Threads |-> NoEntry]
    /\ wexp = [th \in Threads |-> -1]
    /\ taskPut = [r \in Req |-> FALSE]
    /\ result = [r \in Req |-> NoResult]

\* handle(request) is called with a GET request; readFromCache:
\* await cache.match(VARY_METADATA_KEY).  No vary metadata is stored.
\* Requests are interchangeable, so they are numbered in order of arrival.
ReadVary(r) ==
    /\ pc[r] = "new"
    /\ \A q \in Req : q < r => pc[q] # "new"
    /\ \E h \in RequestHeaders : hdrs' = [hdrs EXCEPT ![r] = h]
    /\ \/ \* the store raises: readFromCache and handle reject
          /\ CanFailHandle
          /\ faults' = faults + 1
          /\ pc' = [pc EXCEPT ![r] = "failed"]
       \/ /\ pc' = [pc EXCEPT ![r] = "read_match"]
          /\ UNCHANGED faults
    /\ UNCHANGED <<now, metaVars, xVars, cfg, entry, snap, readAt, readOut, needsBG,
                   readDeleted, calls, sched, micro, threw, resp, wexp,
                   taskPut, result>>

\* readFromCache: await cache.match(cacheKey), the expiry check, and for a
\* kept entry the conditional validation and handle()'s dispatch
ReadMatch(r) ==
    /\ pc[r] = "read_match"
    /\ \/ \* the store raises
          /\ CanFailHandle
          /\ faults' = faults + 1
          /\ pc' = [pc EXCEPT ![r] = "failed"]
          /\ UNCHANGED <<snap, readAt, readOut, needsBG, calls, sched, micro,
                         result>>
       \/ /\ UNCHANGED faults
          /\ snap' = [snap EXCEPT ![r] = entry]
          /\ readAt' = [readAt EXCEPT ![r] = now]
          /\ IF ~entry.present
             THEN \* miss
                  /\ readOut' = [readOut EXCEPT ![r] = "null"]
                  /\ UNCHANGED needsBG
                  /\ Apply(r, Dispatch("null", FALSE, entry))
             ELSE IF IsExpired(entry, now) /\ ~InSwrWindow(entry, now)
             THEN \* expired: body.cancel(), await cache.delete(cacheRequest)
                  /\ pc' = [pc EXCEPT ![r] = "read_delete"]
                  /\ UNCHANGED <<readOut, needsBG, calls, sched, micro,
                                 result>>
             ELSE \* fresh, or stale within the window
                  LET ret == ReadResult(hdrs[r], entry, IsExpired(entry, now))
                  IN  /\ readOut' = [readOut EXCEPT ![r] = ret.out]
                      /\ needsBG' = [needsBG EXCEPT ![r] = ret.bg]
                      /\ Apply(r, Dispatch(ret.out, ret.bg, entry))
    /\ UNCHANGED <<now, metaVars, xVars, cfg, entry, hdrs, readDeleted, threw, resp,
                   wexp, taskPut>>

\* (mutant) the expired entry is left in the store
DeleteEffectSkipped(r) ==
    /\ entry' = entry
    /\ readDeleted' = readDeleted

\* the effect of cache.delete(cacheRequest) in readFromCache
DeleteEffect(r) ==
    /\ entry' = NoEntry
    /\ readDeleted' = [readDeleted EXCEPT ![r] = TRUE]

\* readFromCache: resuming after await cache.delete(cacheRequest);
\* cachedResponse = null is returned and handle() takes the miss path
ReadDelete(r) ==
    /\ pc[r] = "read_delete"
    /\ \/ \* the store raises
          /\ CanFailHandle
          /\ faults' = faults + 1
          /\ pc' = [pc EXCEPT ![r] = "failed"]
          /\ UNCHANGED <<entry, readDeleted, readOut, calls, sched, micro,
                         result>>
       \/ /\ UNCHANGED faults
          /\ DeleteEffect(r)
          /\ readOut' = [readOut EXCEPT ![r] = "null"]
          /\ Apply(r, Dispatch("null", FALSE, NoEntry))
    /\ UNCHANGED <<now, metaVars, xVars, cfg, hdrs, snap, readAt, needsBG, threw,
                   resp, wexp, taskPut>>

\* the off policy: await caches.open(...).then(c => c.delete(request)) with
\* any failure ignored, cached.body.cancel(), then the miss path
\* (the handler of Part II is created without options.cache and its cache
\* keys are the request URLs; Part XI has the other cases)
OffDelete(r) ==
    /\ pc[r] = "off_delete"
    /\ \/ /\ CanFailHandle
          /\ faults' = faults + 1
          /\ UNCHANGED entry
       \/ /\ UNCHANGED faults
          /\ entry' = NoEntry
    /\ Apply(r, MissDispatch)
    /\ UNCHANGED <<now, metaVars, xVars, cfg, hdrs, snap, readAt, readOut, needsBG,
                   readDeleted, threw, resp, wexp, taskPut>>

\* the awaited origin handler call of thread th settles.  When it resolves,
\* writeToCache runs up to await cache.put: parseResponseHeaders, the
\* Expires header from Date.now() + ttl * 1000, validateCacheTags.
HandlerSettles(th) ==
    /\ pc[th] \in {"miss_handler", "blk_handler", "t_handler"}
    /\ \/ \* the handler throws
          /\ threw' = [threw EXCEPT ![ReqOf(th)] = TRUE]
          /\ Settle(th, Raise(th))
       \/ \E x \in OriginResponses(th) :
             /\ UNCHANGED threw
             /\ IF parseResponseHeaders(x).shouldCache
                THEN /\ pc' = [pc EXCEPT ![th] = "w_put"]
                     /\ resp' = [resp EXCEPT ![th] =
                            [x EXCEPT !.ttlEnd =
                              now + parseResponseHeaders(x).ttl * MsPerSecond]]
                     /\ wexp' = [wexp EXCEPT ![th] =
                            ExpiresRoundTrip(
                              now + parseResponseHeaders(x).ttl * MsPerSecond)]
                     /\ UNCHANGED result
                ELSE Settle(th, WriteEnd(th, x))
    /\ UNCHANGED <<now, faults, metaVars, xVars, cfg, entry, hdrs, snap, readAt,
                   readOut, needsBG, readDeleted, calls, sched, micro,
                   taskPut>>

\* (mutant) the put is a read-modify-write: an entry already stored under
\* the key keeps its headers and takes the new body
StoredResponseMerged(response, expires) ==
    IF entry.present THEN [entry EXCEPT !.body = response.body]
    ELSE [response EXCEPT !.expires = expires]

\* write.ts lines 52-57: the response that cache.put stores under the key,
\* replacing whatever entry the key had
StoredResponse(response, expires) == [response EXCEPT !.expires = expires]

\* writeToCache: await cache.put(cacheKey, cacheResponse); with tags the
\* tag index update follows, without tags (and vary) writeToCache returns
WPut(th) ==
    /\ pc[th] = "w_put"
    /\ \/ \* the store raises
          /\ CanFailHandle
          /\ faults' = faults + 1
          /\ Settle(th, Raise(th))
          /\ UNCHANGED <<entry, taskPut>>
       \/ /\ UNCHANGED faults
          /\ entry' = StoredResponse(resp[th], wexp[th])
          /\ taskPut' = IF th \in Tasks
                        THEN [taskPut EXCEPT ![ReqOf(th)] = TRUE]
                        ELSE taskPut
          /\ IF Len(resp[th].tags) > 0
             THEN /\ pc' = [pc EXCEPT ![th] = "w_tags"]
                  /\ UNCHANGED <<result, resp, wexp>>
             ELSE Settle(th, WriteEnd(th, resp[th]))
    /\ UNCHANGED <<now, metaVars, xVars, cfg, hdrs, snap, readAt, readOut, needsBG,
                   readDeleted, calls, sched, micro, threw>>

\* writeToCache: await updateTagMetadata(cache, METADATA_KEY, tags, cacheKey).
\* The update is the protocol of Part I, taken here as one step that either
\* returns or raises (retries exhausted: a concurrent updater kept the lock
\* for five attempts, or a store failure left the lock record behind).
WTags(th) ==
    /\ pc[th] = "w_tags"
    /\ \/ /\ CanFailHandle
          /\ faults' = faults + 1
          /\ Settle(th, Raise(th))
       \/ /\ UNCHANGED faults
          /\ Settle(th, WriteEnd(th, resp[th]))
    /\ UNCHANGED <<now, metaVars, xVars, cfg, entry, hdrs, snap, readAt, readOut,
                   needsBG, readDeleted, calls, sched, micro, threw, taskPut>>

\* a thread of Part II is still running
Running == \E th \in Threads : pc[th] \notin
               {"t_none", "done", "failed", "t_done", "t_failed"}

\* time passes
TickHandle ==
    /\ Running
    /\ now + HalfSecond <= MaxTicksHandle * HalfSecond
    /\ now' = now + HalfSecond
    /\ UNCHANGED <<faults, metaVars, hVars, xVars>>

NextHandle ==
    \/ \E r \in Req : ReadVary(r)
    \/ \E r \in Req : ReadMatch(r)
    \/ \E r \in Req : ReadDelete(r)
    \/ \E r \in Req : OffDelete(r)
    \/ \E th \in Threads : HandlerSettles(th)
    \/ \E th \in Threads : WPut(th)
    \/ \E th \in Threads : WTags(th)
    \/ TickHandle

SpecHandle == InitHandle /\ [][NextHandle]_vars

(***************************************************************************)
(* Part III: calls of pure functions                                       *)
(***************************************************************************)
\* a cache-control or cdn-cache-control value with the given directives
Directives(maxAge, private, noCache, noStore) ==
    [present |-> TRUE, maxAge |-> maxAge, swr |-> -1,
     private |-> private, noCache |-> noCache, noStore |-> noStore]

\* bounds of the header values and configurations that are enumerated
MaxMaxAge == 2
MaxConfiguredTtl == 2

CacheControlValues ==
    {NoCC} \cup {Directives(a, p, c, s) :
                    a \in -1..MaxMaxAge, p \in BOOLEAN, c \in BOOLEAN,
                    s \in BOOLEAN}
CdnCacheControlValues ==
    {NoCC} \cup {Directives(a, FALSE, FALSE, s) :
                    a \in -1..MaxMaxAge, s \in BOOLEAN}
ParseConfigs ==
    [defaultTtl : 0..MaxConfiguredTtl, maxTtl : 0..MaxConfiguredTtl,
     cacheControl : BOOLEAN, cdnCacheControl : BOOLEAN]

\* writeToCache is about to be called with a response and a configuration
InitParse ==
    /\ now = 0
    /\ faults = 0
    /\ MetaIdle
    /\ HandleIdle
    /\ InvalIdle
    /\ fin \in [cc : CacheControlValues, cdn : CdnCacheControlValues,
                tags : {<<>>, <<"t">>}, expires : {-1, 1000},
                config : ParseConfigs]
    /\ fout = <<>>

\* writeToCache lines 20-26: parseResponseHeaders; the response is put into
\* the store iff shouldCache
WriteDecision ==
    /\ fin # <<>>
    /\ fout = <<>>
    /\ fout' = ParsedCacheHeaders(fin.cc, fin.cdn, fin.tags, fin.expires,
                                  fin.config)
    /\ UNCHANGED <<envVars, metaVars, hVars, fin, store, op, prev>>

NextParse == WriteDecision

SpecParse == InitParse /\ [][NextParse]_vars

\* the caching directives parseResponseHeaders resolves for the response:
\* the cdn-cache-control value when present and enabled, else the
\* cache-control value when enabled
WinningDirectives ==
    IF fin.config.cdnCacheControl /\ fin.cdn.present THEN fin.cdn
    ELSE IF fin.config.cacheControl THEN fin.cc
    ELSE NoCC

(***************************************************************************)
(* Part IV: writes and invalidations, one operation at a time              *)
(***************************************************************************)
MaxOps == 4
MaxFaultsInval == 1

InvTags == {"x", "y"}

\* URL paths, as sequences of characters: /a, /a/b and /ab
PathA == <<"/", "a">>
PathAB == <<"/", "a", "/", "b">>
PathAb == <<"/", "a", "b">>
\* cache keys are origin + pathname of one origin; a key is given by its path
Keys == {PathA, PathAB, PathAb}
\* the path arguments of invalidateByPath: /a, /a/ and /ab
InvPaths == {PathA, Append(PathA, "/"), PathAb}

\* new URL(key).pathname
pathname(key) == key

\* String.prototype.startsWith
StartsWith(str, prefix) ==
    Len(prefix) <= Len(str) /\ SubSeq(str, 1, Len(prefix)) = prefix

\* invalidation.ts line 129
PathMatches(key, path) ==
    pathname(key) = path \/ StartsWith(pathname(key), Append(path, "/"))

NoStored == [present |-> FALSE, tags |-> {}]
Stored(tags) == [present |-> TRUE, tags |-> tags]
EmptyStore == [k \in Keys |-> NoStored]
EmptyIndex == [t \in InvTags |-> <<>>]

CanFailInval == faults < MaxFaultsInval

\* the locals of an operation: n counts the operations so far, store0 is
\* history: the store when the operation was called
NoOp ==
    [n |-> 0, kind |-> "none", arg |-> <<>>, tags |-> {}, pc |-> "returned",
     metadata |-> EmptyIndex, hadResponse |-> FALSE, keys |-> <<>>,
     del |-> {}, left |-> {}, count |-> 0, ret |-> 0, store0 |-> EmptyStore]

Call(kind, arg, tags, position) ==
    [NoOp EXCEPT !.n = op.n + 1, !.kind = kind, !.arg = arg, !.tags = tags,
                 !.pc = position, !.store0 = store]

\* no operation is running and another one may be called
Idle == op.pc \in {"returned", "raised"} /\ op.n < MaxOps

Returns(o, value) == [o EXCEPT !.pc = "returned", !.ret = value]
Raises(o) == [o EXCEPT !.pc = "raised"]

\* the variables no operation of Part IV changes
outerVars == <<now, lockRec, wVars, hVars, fin, fout>>

InitInval ==
    /\ now = 0
    /\ faults = 0
    /\ lockRec = NoLock
    /\ tagIndex \in {AbsentIndex, CorruptIndex}
    /\ wpc = <<>> /\ attempt = <<>> /\ seenLock = <<>> /\ lockData = <<>>
    /\ updatedData = <<>> /\ failed = <<>> /\ delay = <<>>
    /\ progress = <<>> /\ held = <<>>
    /\ HandleIdle
    /\ PureIdle
    /\ store = EmptyStore
    /\ op = NoOp
    /\ prev = NoOp

\* writeToCache(request of key k, response tagged tags) is called:
\* await cache.put(cacheKey, cacheResponse)
IWPut(k, tags) ==
    /\ Idle
    /\ prev' = op
    /\ \/ /\ CanFailInval
          /\ faults' = faults + 1
          /\ op' = Raises(Call("write", k, tags, "w_put"))
          /\ UNCHANGED store
       \/ /\ UNCHANGED faults
          /\ store' = [store EXCEPT ![k] = Stored(tags)]
          /\ op' = IF tags # {}
                   THEN Call("write", k, tags, "w_tags")
                   ELSE Returns(Call("write", k, tags, "w_put"), 0)
    /\ UNCHANGED <<outerVars, tagIndex>>

\* writeToCache: await updateTagMetadata(cache, METADATA_KEY, tags, cacheKey),
\* the protocol of Part I taken as one step that returns or raises
IWTags ==
    /\ op.pc = "w_tags"
    /\ \/ /\ CanFailInval
          /\ faults' = faults + 1
          /\ op' = Raises(op)
          /\ UNCHANGED tagIndex
       \/ /\ UNCHANGED faults
          /\ tagIndex' = OkIndex(updateTagFn(
                             safeJsonParse(tagIndex, EmptyIndex),
                             op.tags, op.arg))
          /\ op' = Returns(op, 0)
    /\ UNCHANGED <<outerVars, store, prev>>

\* readFromCache found the entry of key k expired outside any
\* stale-while-revalidate window: cache.delete(cacheRequest)
Expire(k) ==
    /\ Idle
    /\ store[k].present
    /\ prev' = op
    /\ store' = [store EXCEPT ![k] = NoStored]
    /\ op' = Returns(Call("expire", k, {}, "returned"), 0)
    /\ UNCHANGED <<faults, outerVars, tagIndex>>

\* invalidateByTag lines 61-72, after the delete loop: the index is rewritten
\* when there was a metadata response and metadata[tag] existed
TagAfterLoop(o) ==
    IF o.hadResponse /\ o.metadata[o.arg] # <<>>
    THEN [o EXCEPT !.pc = "t_put"]
    ELSE Returns(o, o.count)

\* invalidateByTag(t) is called: validateCacheTag, await
\* cache.match(METADATA_KEY), safeJsonParse, keysToDelete = metadata[tag] || []
TagMatch(t) ==
    /\ Idle
    /\ prev' = op
    /\ \/ /\ CanFailInval
          /\ faults' = faults + 1
          /\ op' = Raises(Call("tag", t, {}, "t_match"))
       \/ /\ UNCHANGED faults
          /\ LET metadata == safeJsonParse(tagIndex, EmptyIndex)
                 o == [Call("tag", t, {}, "t_del") EXCEPT
                          !.metadata = metadata,
                          !.hadResponse = (tagIndex.state # "absent"),
                          !.keys = metadata[t]]
             IN  op' = IF o.keys = <<>> THEN TagAfterLoop(o) ELSE o
    /\ UNCHANGED <<outerVars, tagIndex, store>>

\* (mutant) every delete is counted, whatever the store reported
CountDeletedAlways(count, deleted) == count + 1

\* (mutant) no delete is counted
CountDeletedNever(count, deleted) == count

\* invalidation.ts lines 56-58: if (deleted) deletedCount++
CountDeleted(count, deleted) == IF deleted THEN count + 1 ELSE count

\* invalidateByTag: await cache.delete(key) for the next key of the loop
TagDelete ==
    /\ op.pc = "t_del"
    /\ \/ /\ CanFailInval
          /\ faults' = faults + 1
          /\ op' = Raises(op)
          /\ UNCHANGED store
       \/ /\ UNCHANGED faults
          /\ store' = [store EXCEPT ![Head(op.keys)] = NoStored]
          /\ LET o == [op EXCEPT
                          !.keys = Tail(op.keys),
                          !.count = CountDeleted(op.count,
                                        store[Head(op.keys)].present)]
             IN  op' = IF o.keys = <<>> THEN TagAfterLoop(o) ELSE o
    /\ UNCHANGED <<outerVars, tagIndex, prev>>

\* invalidateByTag: delete metadata[tag]; await cache.put(METADATA_KEY, ...)
TagPut ==
    /\ op.pc = "t_put"
    /\ \/ /\ CanFailInval
          /\ faults' = faults + 1
          /\ op' = Raises(op)
          /\ UNCHANGED tagIndex
       \/ /\ UNCHANGED faults
          /\ tagIndex' = OkIndex([op.metadata EXCEPT ![op.arg] = <<>>])
          /\ op' = Returns(op, op.count)
    /\ UNCHANGED <<outerVars, store, prev>>

\* the keys that occur in some key-set of metadata
IndexedKeys(metadata) ==
    {k \in Keys : \E t \in DOMAIN metadata : Includes(metadata[t], k)}

\* invalidateByPath(path) is called: await cache.match(METADATA_KEY); no
\* response or an unparseable one returns 0; else the matching keys are
\* collected
PathMatch(path) ==
    /\ Idle
    /\ prev' = op
    /\ \/ /\ CanFailInval
          /\ faults' = faults + 1
          /\ op' = Raises(Call("path", path, {}, "p_match"))
       \/ /\ UNCHANGED faults
          /\ IF tagIndex.state # "ok"
             THEN op' = Returns(Call("path", path, {}, "p_match"), 0)
             ELSE LET del == {k \in IndexedKeys(tagIndex.map) :
                                 PathMatches(k, path)}
                      o == [Call("path", path, {}, "p_del") EXCEPT
                               !.metadata = tagIndex.map,
                               !.hadResponse = TRUE,
                               !.del = del, !.left = del]
                  IN  op' = IF del = {} THEN Returns(o, 0) ELSE o
    /\ UNCHANGED <<outerVars, tagIndex, store>>

\* (mutant) the index is rewritten only when every delete removed an entry
RewriteNeededAll(count, del) == count = Cardinality(del)

\* invalidation.ts line 147: if (deletedCount > 0)
RewriteNeeded(count, del) == count > 0

\* invalidateByPath: await cache.delete(key) for a key of keysToDelete
PathDelete ==
    /\ op.pc = "p_del"
    /\ \/ /\ CanFailInval
          /\ faults' = faults + 1
          /\ op' = Raises(op)
          /\ UNCHANGED store
       \/ \E k \in op.left :
             /\ UNCHANGED faults
             /\ store' = [store EXCEPT ![k] = NoStored]
             /\ LET o == [op EXCEPT
                             !.left = op.left \ {k},
                             !.count = CountDeleted(op.count,
                                                    store[k].present)]
                IN  op' = IF o.left # {} THEN o
                          ELSE IF RewriteNeeded(o.count, o.del)
                          THEN [o EXCEPT !.pc = "p_put"]
                          ELSE Returns(o, o.count)
    /\ UNCHANGED <<outerVars, tagIndex, prev>>

\* invalidation.ts lines 148-156: every key-set without the deleted keys
FilterIndex(metadata, del) ==
    [t \in DOMAIN metadata |->
        SelectSeq(metadata[t], LAMBDA k : k \notin del)]

\* invalidateByPath: await cache.put(METADATA_KEY, updatedMetadata)
PathPut ==
    /\ op.pc = "p_put"
    /\ \/ /\ CanFailInval
          /\ faults' = faults + 1
          /\ op' = Raises(op)
          /\ UNCHANGED tagIndex
       \/ /\ UNCHANGED faults
          /\ tagIndex' = OkIndex(FilterIndex(op.metadata, op.del))
          /\ op' = Returns(op, op.count)
    /\ UNCHANGED <<outerVars, store, prev>>

NextInval ==
    \/ \E k \in Keys, tags \in SUBSET InvTags : IWPut(k, tags)
    \/ IWTags
    \/ \E k \in Keys : Expire(k)
    \/ \E t \in InvTags : TagMatch(t)
    \/ TagDelete
    \/ TagPut
    \/ \E path \in InvPaths : PathMatch(path)
    \/ PathDelete
    \/ PathPut

SpecInval == InitInval /\ [][NextInval]_vars

\* the key-set of tag t in the stored index of Part IV
IndexKeySet(t) == safeJsonParse(tagIndex, EmptyIndex)[t]

(***************************************************************************)
(* Part V: utils.ts defaultGetCacheKey, a pure function of a GET request   *)
(* and an optional vary rule.  A key is the sequence of the pieces the     *)
(* code concatenates into the key string.                                  *)
(***************************************************************************)
\* bound: the number of parameters in the query string of a request
MaxParams == 2

\* the names of each kind, in the order Array.prototype.sort puts them
QueryNames == <<"p", "q">>
HeaderNames == <<"accept", "lang">>
CookieNames == <<"sid", "theme">>

Range(seq) == {seq[i] : i \in 1..Len(seq)}

\* what Headers.get, URLSearchParams.get and getCookieValue return for a
\* name the request does not carry (null)
Absent == "null"

\* a query string is a sequence of name=value parameters, in URL order
Queries ==
    UNION {[1..n -> [name : Range(QueryNames), value : {"", "1"}]] :
               n \in 0..MaxParams}

\* GET requests for one origin and path
Requests ==
    [query : Queries,
     headers : [Range(HeaderNames) -> {Absent, "1"}],
     cookies : [Range(CookieNames) -> {Absent, "1"}]]

\* the vary argument: undefined, or the three lists of names
NoVary == [present |-> FALSE, headers |-> {}, cookies |-> {}, query |-> {}]
VaryRules ==
    {NoVary} \cup
    [present : {TRUE}, headers : SUBSET Range(HeaderNames),
     cookies : SUBSET Range(CookieNames), query : SUBSET Range(QueryNames)]

\* a request dimension: one header, one cookie or one query parameter name
Dimensions ==
    [kind : {"query"}, name : Range(QueryNames)] \cup
    [kind : {"header"}, name : Range(HeaderNames)] \cup
    [kind : {"cookie"}, name : Range(CookieNames)]

\* the query string without the parameters named n
WithoutParam(query, n) == SelectSeq(query, LAMBDA e : e.name # n)

\* the requests that are identical to request except in dimension d
Variants(request, d) ==
    IF d.kind = "query"
    THEN {[request EXCEPT !.query = q] :
             q \in {x \in Queries : WithoutParam(x, d.name) =
                                        WithoutParam(request.query, d.name)}}
    ELSE IF d.kind = "header"
    THEN {[request EXCEPT !.headers[d.name] = v] : v \in {Absent, "1"}}
    ELSE {[request EXCEPT !.cookies[d.name] = v] : v \in {Absent, "1"}}

\* Array.prototype.join: the pieces of parts with sep between them
RECURSIVE Join(_, _)
Join(parts, sep) ==
    IF parts = <<>> THEN <<>>
    ELSE IF Len(parts) = 1 THEN parts[1]
    ELSE parts[1] \o <<sep>> \o Join(Tail(parts), sep)

\* (mutant) every known name is folded into the key, listed or not
ListedAll(names, listed) == names

\* [...vary.query].sort(), vary.headers.sort(), vary.cookies.sort()
Listed(names, listed) == SelectSeq(names, LAMBDA n : n \in listed)

\* url.searchParams.get(name): the value of the first parameter so named
searchParamsGet(query, name) ==
    LET hits == SelectSeq(query, LAMBDA e : e.name = name)
    IN  IF hits = <<>> THEN Absent ELSE hits[1].value

\* value || ""
OrEmpty(value) == IF value = Absent THEN "" ELSE value

\* utils.ts getCookieValue
getCookieValue(request, cookieName) == request.cookies[cookieName]

\* Array.from(url.searchParams.entries()).sort by name (a stable sort)
RECURSIVE EntriesNamed(_, _)
EntriesNamed(query, names) ==
    IF names = <<>> THEN <<>>
    ELSE SelectSeq(query, LAMBDA e : e.name = Head(names)) \o
         EntriesNamed(query, Tail(names))

SortedEntries(query) == EntriesNamed(query, QueryNames)

\* new URL(request.url).pathname, as the sequence of its pieces: the
\* requests of Part V share the path /path; ":", "=" and "," are not
\* percent-encoded in a path
urlPathname(request) ==
    IF "path" \in DOMAIN request THEN request.path ELSE <<"/path">>

\* utils.ts defaultGetCacheKey for a GET request
defaultGetCacheKey(request, vary) ==
    LET base == <<"https://example.com">> \o urlPathname(request)
    IN  IF vary.present
        THEN
            LET qn == Listed(QueryNames, vary.query)
                hn == Listed(HeaderNames, vary.headers)
                cn == Listed(CookieNames, vary.cookies)
                search ==
                    IF qn # <<>>
                    THEN <<"?">> \o
                         Join([i \in 1..Len(qn) |->
                                  <<qn[i], "=",
                                    OrEmpty(searchParamsGet(request.query,
                                                            qn[i]))>>], "&")
                    ELSE <<>>
                headerPart ==
                    IF hn # <<>>
                    THEN << <<"h=">> \o
                            Join([i \in 1..Len(hn) |->
                                     <<hn[i], ":",
                                       OrEmpty(request.headers[hn[i]])>>],
                                 ",") >>
                    ELSE <<>>
                cookiePart ==
                    IF cn # <<>>
                    THEN << <<"c=">> \o
                            Join([i \in 1..Len(cn) |->
                                     <<cn[i], ":",
                                       OrEmpty(getCookieValue(request,
                                                              cn[i]))>>],
                                 ",") >>
                    ELSE <<>>
                varyParts == headerPart \o cookiePart
            IN  base \o search \o
                (IF varyParts # <<>>
                 THEN <<"::">> \o Join(varyParts, "::")
                 ELSE <<>>)
        ELSE
            LET entries == SortedEntries(request.query)
            IN  base \o
                (IF entries # <<>>
                 THEN <<"?">> \o
                      Join([i \in 1..Len(entries) |->
                               <<entries[i].name, "=", entries[i].value>>],
                           "&")
                 ELSE <<>>)

\* two requests that are identical except in one dimension are about to be
\* looked up under one vary rule
InitKey ==
    /\ now = 0
    /\ faults = 0
    /\ MetaIdle
    /\ HandleIdle
    /\ InvalIdle
    /\ \E r1 \in Requests, v \in VaryRules, d \in Dimensions :
           \E r2 \in Variants(r1, d) :
               fin = [r1 |-> r1, r2 |-> r2, vary |-> v, dim |-> d]
    /\ fout = <<>>

\* read.ts line 46, write.ts: getCacheKey(request, varyArg) for both requests
DeriveKeys ==
    /\ fin # <<>>
    /\ fout = <<>>
    /\ fout' = <<defaultGetCacheKey(fin.r1, fin.vary),
                 defaultGetCacheKey(fin.r2, fin.vary)>>
    /\ UNCHANGED <<envVars, metaVars, hVars, fin, store, op, prev>>

NextKey == DeriveKeys

SpecKey == InitKey /\ [][NextKey]_vars

\* the names of dimension d's kind that the vary rule lists
ListedNames(vary, d) ==
    IF d.kind = "query" THEN vary.query
    ELSE IF d.kind = "header" THEN vary.headers
    ELSE vary.cookies

(***************************************************************************)
(* Part VI: the entry points readFromCache, writeToCache and handle(),     *)
(* called one at a time with a request of any method and a response with   *)
(* any cache-tag header.  The store and the tag index are those of Part IV.*)
(***************************************************************************)
\* bounds: the number of calls, of injected store failures, and of tags
\* that a cache-tag header spells out
MaxCalls == 2
MaxFaultsEntry == 1
MaxTagItems == 2

\* utils.ts validateCacheTags and validateCacheTag: the limits
MAX_TAGS == 100
MAX_TAG_LENGTH == 100

Methods == {"GET", "POST", "HEAD"}
EntryKeys == {PathA}

\* one item of a cache-tag header: its name once sanitized, its length
\* after trim(), how many of its characters are control characters, and
\* whether it contains <, > or a double quote
Tag(name, length, control, forbidden) ==
    [name |-> name, length |-> length, control |-> control,
     forbidden |-> forbidden]
TagItems ==
    { Tag("x", 1, 0, FALSE), Tag("y", 1, 0, FALSE),
      Tag("x", MAX_TAG_LENGTH, 0, FALSE),
      Tag("x", MAX_TAG_LENGTH + 1, 0, FALSE),
      Tag("x", 1, 1, FALSE),
      Tag("x", 1, 0, TRUE),
      Tag("x", 0, 0, FALSE) }

\* a cache-tag header: the items spelled out (valid tags, then at most one
\* item of any kind), followed by filler further valid tags ("tag:0",
\* "tag:1", ...) that the index of the model does not track
NoTagHeader == [items |-> <<>>, filler |-> 0]
ValidPrefixes ==
    UNION {[1..n -> {Tag("x", 1, 0, FALSE), Tag("y", 1, 0, FALSE)}] :
               n \in 0..(MaxTagItems - 1)}
TagHeaders ==
    [items : ValidPrefixes \cup
             {Append(prefix, t) : prefix \in ValidPrefixes, t \in TagItems},
     filler : {0, MAX_TAGS - 1, MAX_TAGS}]

\* utils.ts parseCacheTags: split, trim, drop the empty tags
parseCacheTags(header) ==
    [items |-> SelectSeq(header.items, LAMBDA t : t.length > 0),
     filler |-> header.filler]

\* utils.ts validateCacheTag: TRUE when the tag is returned, FALSE when
\* the function throws
validateCacheTag(tag) ==
    /\ tag.length # 0
    /\ tag.length <= MAX_TAG_LENGTH
    /\ tag.length - tag.control # 0
    /\ ~tag.forbidden

\* (mutant) only the number of tags is validated
validateCacheTagsCountOnly(tags) ==
    [ok |-> Len(tags.items) + tags.filler <= MAX_TAGS,
     names |-> {tags.items[i].name : i \in 1..Len(tags.items)}]

\* utils.ts validateCacheTags: ok is FALSE when it throws, names are the
\* sanitized tags it returns
validateCacheTags(tags) ==
    [ok |-> /\ Len(tags.items) + tags.filler <= MAX_TAGS
            /\ \A i \in 1..Len(tags.items) : validateCacheTag(tags.items[i]),
     names |-> {tags.items[i].name : i \in 1..Len(tags.items)}]

\* (mutant) HEAD requests are cached as well
IsGetOrHead(method) == method \in {"GET", "HEAD"}

\* request.method !== "GET" (handlers.ts 20, read.ts 16, write.ts 20)
IsGet(method) == method = "GET"

CanFailEntry == faults < MaxFaultsEntry

\* the locals of a call: called counts the origin handler invocations;
\* store0 and index0 are history, the store and the index at the call
NoRequest ==
    [n |-> 0, entry |-> "none", method |-> "GET", key |-> <<>>,
     header |-> NoTagHeader, hasHandler |-> FALSE, pc |-> "returned",
     out |-> "none", called |-> 0, store0 |-> <<>>, index0 |-> <<>>]

Request(api, method, key, hasHandler, position) ==
    [NoRequest EXCEPT !.n = op.n + 1, !.entry = api, !.method = method,
                      !.key = key, !.hasHandler = hasHandler,
                      !.pc = position, !.store0 = store,
                      !.index0 = tagIndex]

EntryIdle == op.pc \in {"returned", "raised"} /\ op.n < MaxCalls

Responds(o, out) == [o EXCEPT !.pc = "returned", !.out = out]
Rejects(o) == [o EXCEPT !.pc = "raised"]

\* what the call returns once writeToCache has returned
Written(o) ==
    Responds(o, IF o.entry = "handle" THEN "origin" ELSE "response")

\* writeToCache lines 20-56 for a GET request and a cacheable response with
\* the given cache-tag header, up to await cache.put: validateCacheTags
\* throws, or the put is awaited
writeToCacheStart(o, header) ==
    IF Len(parseCacheTags(header).items) + header.filler > 0
       /\ ~validateCacheTags(parseCacheTags(header)).ok
    THEN Rejects([o EXCEPT !.header = header])
    ELSE [o EXCEPT !.header = header, !.pc = "w_put"]

InitEntry ==
    /\ now = 0
    /\ faults = 0
    /\ MetaIdle
    /\ HandleIdle
    /\ PureIdle
    /\ store = [k \in Keys |-> NoStored]
    /\ op = NoRequest
    /\ prev = <<>>

\* readFromCache(request) is called; for a GET request:
\* await cache.match(VARY_METADATA_KEY)
ReadCall(k, m) ==
    /\ EntryIdle
    /\ IF ~IsGet(m)
       THEN /\ op' = Responds(Request("read", m, k, FALSE, "new"), "null")
            /\ UNCHANGED faults
       ELSE \/ /\ CanFailEntry
               /\ faults' = faults + 1
               /\ op' = Rejects(Request("read", m, k, FALSE, "new"))
            \/ /\ UNCHANGED faults
               /\ op' = Request("read", m, k, FALSE, "r_match")
    /\ UNCHANGED <<outerVars, tagIndex, store, prev>>

\* handlers.ts lines 137-147: the miss path up to the awaited handler call
EntryMiss(o) ==
    IF o.entry = "read" THEN Responds(o, "null")
    ELSE IF o.hasHandler
    THEN [o EXCEPT !.pc = "h_handler", !.called = @ + 1]
    ELSE Responds(o, "500")

\* readFromCache: await cache.match(cacheKey); a stored entry is returned
\* (entries of this part do not expire)
EntryMatch ==
    /\ op.pc \in {"r_match", "h_match"}
    /\ \/ /\ CanFailEntry
          /\ faults' = faults + 1
          /\ op' = Rejects(op)
       \/ /\ UNCHANGED faults
          /\ op' = IF store[op.key].present THEN Responds(op, "hit")
                   ELSE EntryMiss(op)
    /\ UNCHANGED <<outerVars, tagIndex, store, prev>>

\* writeToCache(request, response) is called with a cacheable response
WriteCall(k, m, header) ==
    /\ EntryIdle
    /\ op' = IF ~IsGet(m)
             THEN Responds(Request("write", m, k, FALSE, "new"), "response")
             ELSE writeToCacheStart(Request("write", m, k, FALSE, "new"),
                                    header)
    /\ UNCHANGED <<faults, outerVars, tagIndex, store, prev>>

\* writeToCache: await cache.put(cacheKey, cacheResponse)
EntryPut ==
    /\ op.pc = "w_put"
    /\ \/ /\ CanFailEntry
          /\ faults' = faults + 1
          /\ op' = Rejects(op)
          /\ UNCHANGED store
       \/ /\ UNCHANGED faults
          /\ store' = [store EXCEPT ![op.key] =
                 Stored(validateCacheTags(parseCacheTags(op.header)).names)]
          /\ op' = IF Len(parseCacheTags(op.header).items)
                         + op.header.filler > 0
                   THEN [op EXCEPT !.pc = "w_tags"]
                   ELSE Written(op)
    /\ UNCHANGED <<outerVars, tagIndex, prev>>

\* writeToCache: await updateTagMetadata(cache, METADATA_KEY, validatedTags,
\* cacheKey), the protocol of Part I taken as one step
EntryTags ==
    /\ op.pc = "w_tags"
    /\ \/ /\ CanFailEntry
          /\ faults' = faults + 1
          /\ op' = Rejects(op)
          /\ UNCHANGED tagIndex
       \/ /\ UNCHANGED faults
          /\ tagIndex' = OkIndex(updateTagFn(
                 safeJsonParse(tagIndex, EmptyIndex),
                 validateCacheTags(parseCacheTags(op.header)).names, op.key))
          /\ op' = Written(op)
    /\ UNCHANGED <<outerVars, store, prev>>

\* handle(request) is called.  handlers.ts lines 19-26: a non-GET request
\* goes to the handler directly; a GET request is read from the cache
HandleCall(k, m, hasHandler) ==
    /\ EntryIdle
    /\ IF ~IsGet(m)
       THEN /\ op' = IF hasHandler
                     THEN [Request("handle", m, k, hasHandler, "h_direct")
                              EXCEPT !.called = 1]
                     ELSE Responds(Request("handle", m, k, hasHandler,
                                           "new"), "500")
            /\ UNCHANGED faults
       ELSE \/ /\ CanFailEntry
               /\ faults' = faults + 1
               /\ op' = Rejects(Request("handle", m, k, hasHandler, "new"))
            \/ /\ UNCHANGED faults
               /\ op' = Request("handle", m, k, hasHandler, "h_match")
    /\ UNCHANGED <<outerVars, tagIndex, store, prev>>

\* the awaited origin handler settles: it throws, or it resolves with a
\* cacheable response, which handle() returns for a non-GET request and
\* passes to writeToCache on the miss path
EntryHandler ==
    /\ op.pc \in {"h_direct", "h_handler"}
    /\ \/ op' = Rejects(op)
       \/ \E header \in TagHeaders :
              op' = IF op.pc = "h_direct"
                    THEN Responds([op EXCEPT !.header = header], "origin")
                    ELSE writeToCacheStart(op, header)
    /\ UNCHANGED <<faults, outerVars, tagIndex, store, prev>>

NextEntry ==
    \/ \E k \in EntryKeys, m \in Methods : ReadCall(k, m)
    \/ EntryMatch
    \/ \E k \in EntryKeys, m \in Methods, header \in TagHeaders :
           WriteCall(k, m, header)
    \/ EntryPut
    \/ EntryTags
    \/ \E k \in EntryKeys, m \in Methods, hasHandler \in BOOLEAN :
           HandleCall(k, m, hasHandler)
    \/ EntryHandler

SpecEntry == InitEntry /\ [][NextEntry]_vars

(***************************************************************************)
(* Part VII: invalidateByTag running concurrently with the updaters of     *)
(* Part I.  The store holds the entry /a tagged "x", written earlier; each *)
(* updater adds its own key to the key-set of "t" under the lock protocol, *)
(* and one invalidateByTag call runs at any point of their execution.      *)
(***************************************************************************)
\* the index after writeToCache(/a, tags "x"): every other key-set is empty
IndexOfPathA ==
    [t \in Tags \cup InvTags |-> IF t = "x" THEN <<PathA>> ELSE <<>>]

InitConcurrent ==
    /\ now = 0
    /\ faults = 0
    /\ lockRec = NoLock
    /\ tagIndex = OkIndex(IndexOfPathA)
    /\ wpc = [w \in Writers |-> "acq_match"]
    /\ attempt = [w \in Writers |-> 0]
    /\ seenLock = [w \in Writers |-> NoLock]
    /\ lockData = [w \in Writers |-> NoLock]
    /\ updatedData = [w \in Writers |-> EmptyMap]
    /\ failed = [w \in Writers |-> FALSE]
    /\ delay = [w \in Writers |-> 0]
    /\ progress = [w \in Writers |-> "none"]
    /\ held = [w \in Writers |-> "no"]
    /\ HandleIdle
    /\ PureIdle
    /\ store = [EmptyStore EXCEPT ![PathA] = Stored({"x"})]
    /\ op = NoOp
    /\ prev = NoOp

\* the one call of invalidateByTag(t)
InvalidateCall(t) == op.n = 0 /\ TagMatch(t)

NextConcurrent ==
    \/ NextMeta
    \/ \E t \in InvTags : InvalidateCall(t)
    \/ TagDelete
    \/ TagPut

SpecConcurrent == InitConcurrent /\ [][NextConcurrent]_vars

(***************************************************************************)
(* Part VIII: the vary index of metadata.ts updateVaryMetadata.  The index *)
(* is a JSON object url -> {vary data, timestamp}; its entries are kept    *)
(* here in the order Object.entries lists them, the order of insertion.    *)
(* The update runs under the protocol of Part I, taken as one step that    *)
(* writes the index or raises.                                             *)
(***************************************************************************)
\* the maxEntries argument of updateVaryMetadata (1000 by default)
MaxVaryEntries == 2
MaxTicksVary == 3
MaxFaultsVary == 1
MaxVaryUpdates == 4

Urls == {"u1", "u2", "u3", "u4"}

CanFailVary == faults < MaxFaultsVary

\* metadata.ts lines 191-194: { ...varyData, timestamp: Date.now() }
VaryEntry(url, t) == [url |-> url, timestamp |-> t]

\* metadata[requestUrl] = ...: an existing property keeps its place in the
\* object, a new property comes last
Upsert(metadata, url, t) ==
    IF \E i \in 1..Len(metadata) : metadata[i].url = url
    THEN [i \in 1..Len(metadata) |->
             IF metadata[i].url = url THEN VaryEntry(url, t) ELSE metadata[i]]
    ELSE Append(metadata, VaryEntry(url, t))

\* e is put behind every entry that is not younger: the sort is stable
InsertByTimestamp(sorted, e) ==
    LET before == SelectSeq(sorted, LAMBDA x : x.timestamp <= e.timestamp)
        after == SelectSeq(sorted, LAMBDA x : x.timestamp > e.timestamp)
    IN  before \o <<e>> \o after

\* metadata.ts line 200: entries.sort by timestamp, oldest first
RECURSIVE SortOldestFirst(_)
SortOldestFirst(entries) ==
    IF entries = <<>> THEN <<>>
    ELSE InsertByTimestamp(
             SortOldestFirst(SubSeq(entries, 1, Len(entries) - 1)),
             entries[Len(entries)])

\* (mutant) entries.slice(0, maxEntries)
KeepFirst(entries, maxEntries) == SubSeq(entries, 1, maxEntries)

\* metadata.ts line 201: entries.slice(-maxEntries)
KeepLast(entries, maxEntries) ==
    SubSeq(entries, Len(entries) - maxEntries + 1, Len(entries))

\* the updateFn of updateVaryMetadata, lines 189-212
updateVaryFn(metadata, url, t, maxEntries) ==
    LET upserted == Upsert(metadata, url, t)
    IN  IF Len(upserted) > maxEntries
        THEN KeepLast(SortOldestFirst(upserted), maxEntries)
        ELSE upserted

\* the last call of updateVaryMetadata: its url, the time of its updateFn,
\* the index it read, and how it ended
NoVaryUpdate ==
    [n |-> 0, url |-> "", at |-> 0, before |-> <<>>, pc |-> "none"]

InitVary ==
    /\ now = 0
    /\ faults = 0
    /\ MetaIdle
    /\ HandleIdle
    /\ InvalIdle
    /\ fin = <<>>
    /\ fout = NoVaryUpdate

\* updateVaryMetadata(cache, VARY_METADATA_KEY, url, vary) is called and
\* returns or raises
VaryUpdate(url) ==
    /\ fout.n < MaxVaryUpdates
    /\ \/ /\ CanFailVary
          /\ faults' = faults + 1
          /\ fout' = [n |-> fout.n + 1, url |-> url, at |-> now,
                      before |-> fin, pc |-> "raised"]
          /\ UNCHANGED fin
       \/ /\ UNCHANGED faults
          /\ fin' = updateVaryFn(fin, url, now, MaxVaryEntries)
          /\ fout' = [n |-> fout.n + 1, url |-> url, at |-> now,
                      before |-> fin, pc |-> "returned"]
    /\ UNCHANGED <<now, metaVars, hVars, store, op, prev>>

\* time passes between two writes
TickVary ==
    /\ now < MaxTicksVary
    /\ now' = now + 1
    /\ UNCHANGED <<faults, metaVars, hVars, xVars>>

NextVary ==
    \/ \E url \in Urls : VaryUpdate(url)
    \/ TickVary

SpecVary == InitVary /\ [][NextVary]_vars

(***************************************************************************)
(* Part IX: conditional.ts validateConditionalRequest, a pure function of  *)
(* the request's conditional headers and the stored response               *)
(***************************************************************************)
ETags == {StrongETag("v1"), StrongETag("v2"), [weak |-> TRUE, value |-> "v1"]}
\* the values of Last-Modified and If-Modified-Since, ms; -1: no header
HttpDates == {-1, 0, MsPerSecond}

\* the conditional headers a request may carry: If-None-Match absent, "*",
\* or a list of one or two ETags
ConditionalHeaders ==
    [inm : {"none"}, etags : {<<>>}, ims : HttpDates]
        \cup [inm : {"star"}, etags : {<<>>}, ims : HttpDates]
        \cup [inm : {"list"},
              etags : {<<e>> : e \in ETags}
                          \cup {<<StrongETag("v2"), e>> : e \in ETags},
              ims : HttpDates]

\* the stored responses: with or without an ETag and a Last-Modified header
StoredResponses ==
    {[Response(0, CC(1, 1), etag, <<>>) EXCEPT !.lastModified = date] :
        etag \in ETags \cup {NoETag}, date \in HttpDates}

InitConditional ==
    /\ now = 0
    /\ faults = 0
    /\ MetaIdle
    /\ HandleIdle
    /\ InvalIdle
    /\ \E h \in ConditionalHeaders, cachedResponse \in StoredResponses :
           fin = [request |-> h, cachedResponse |-> cachedResponse]
    /\ fout = <<>>

\* read.ts: validateConditionalRequest(request, cachedResponse, config)
Validate ==
    /\ fin # <<>>
    /\ fout = <<>>
    /\ fout' = [shouldReturn304 |->
                   validateConditionalRequest(fin.request, fin.cachedResponse)]
    /\ UNCHANGED <<envVars, metaVars, hVars, fin, store, op, prev>>

NextConditional == Validate

SpecConditional == InitConditional /\ [][NextConditional]_vars

(***************************************************************************)
(* Part X: defaultGetCacheKey for a request keyed without a vary rule and  *)
(* another request keyed with one.  The first request's URL is crafted:    *)
(* its path goes on, after /path, with pieces of key syntax.               *)
(***************************************************************************)
\* the paths of the crafted URLs
CraftedPaths ==
    { <<"/path">>,
      <<"/path", "/x">>,
      <<"/path", "|", "accept", ":", "1">>,
      <<"/path", "::", "h=", "accept", ":", "1">>,
      <<"/path", "::", "c=", "sid", ":", "1">>,
      <<"/path", "::", "h=", "accept", ":", "1", ",", "lang", ":", "1">> }

\* the requests keyed without a vary rule: what they carry besides the URL
\* does not enter the key
BareRequests ==
    [path : CraftedPaths,
     query : {q \in Queries : Len(q) <= 1},
     headers : {[n \in Range(HeaderNames) |-> Absent]},
     cookies : {[n \in Range(CookieNames) |-> Absent]}]

\* the requests keyed with a vary rule, all for the URL path /path
VariedRequests ==
    {[path |-> <<"/path">>, query |-> r.query, headers |-> r.headers,
      cookies |-> r.cookies] : r \in Requests}

InitCollision ==
    /\ now = 0
    /\ faults = 0
    /\ MetaIdle
    /\ HandleIdle
    /\ InvalIdle
    /\ \E r1 \in BareRequests, r2 \in VariedRequests,
          v \in VaryRules \ {NoVary} :
           fin = [r1 |-> r1, r2 |-> r2, vary |-> v]
    /\ fout = <<>>

\* getCacheKey(r1) and getCacheKey(r2, vary)
DeriveBareAndVaried ==
    /\ fin # <<>>
    /\ fout = <<>>
    /\ fout' = <<defaultGetCacheKey(fin.r1, NoVary),
                 defaultGetCacheKey(fin.r2, fin.vary)>>
    /\ UNCHANGED <<envVars, metaVars, hVars, fin, store, op, prev>>

NextCollision == DeriveBareAndVaried

SpecCollision == InitCollision /\ [][NextCollision]_vars

(***************************************************************************)
(* Part XI: handle() under the off policy, for one request that finds an   *)
(* entry that is stale within its window.  Two stores exist: the Cache     *)
(* instance passed as options.cache, and the named cache that              *)
(* caches.open(options.cacheName || "cache-primitives-default") returns.   *)
(* A store is the set of the keys it has an entry for.                     *)
(***************************************************************************)
\* the vary entry that the vary index holds for the request's URL
OffVaryRules ==
    {NoVary,
     [present |-> TRUE, headers |-> {"accept"}, cookies |-> {}, query |-> {}],
     [present |-> TRUE, headers |-> {}, cookies |-> {}, query |-> {"p"}]}

\* request.url: origin, path and the query string in the order it was sent
requestUrl(request) ==
    <<"https://example.com">> \o urlPathname(request) \o
    (IF request.query # <<>>
     THEN <<"?">> \o
          Join([i \in 1..Len(request.query) |->
                   <<request.query[i].name, "=", request.query[i].value>>],
               "&")
     ELSE <<>>)

\* utils.ts getCache: options.cache ?? caches.open(options.cacheName ?? ...)
getCache(hasCacheOption) == IF hasCacheOption THEN "instance" ELSE "named"

\* handlers.ts line 82: caches.open(options.cacheName || "cache-primitives-default")
OffDeleteStore(hasCacheOption) == "named"

\* handlers.ts line 83: c.delete(request) matches the entry stored under
\* the URL of the request
OffDeleteKey(request, cacheKey) == requestUrl(request)

EmptyStores == [named |-> {}, instance |-> {}]

\* createCacheHandler({swr: "off", ...}) with or without options.cache; the
\* store that reads use holds the entry, stale within its window, under the
\* cache key of the request
InitOff ==
    /\ now = 0
    /\ faults = 0
    /\ MetaIdle
    /\ HandleIdle
    /\ PureIdle
    /\ \E request \in Requests, v \in OffVaryRules,
          hasCacheOption \in BOOLEAN :
           /\ op = [pc |-> "read", request |-> request, vary |-> v,
                    hasCacheOption |-> hasCacheOption,
                    cacheKey |-> <<>>, stores0 |-> EmptyStores]
           /\ store = [EmptyStores EXCEPT ![getCache(hasCacheOption)] =
                          {defaultGetCacheKey(request, v)}]
    /\ prev = <<>>

\* readFromCache returns the stale entry with needsBackgroundRevalidation
OffRead ==
    /\ op.pc = "read"
    /\ op' = [op EXCEPT !.pc = "off_delete",
                        !.cacheKey = defaultGetCacheKey(op.request, op.vary)]
    /\ UNCHANGED <<outerVars, faults, tagIndex, store, prev>>

\* handlers.ts lines 81-88: the awaited delete of the off policy
OffPolicyDelete ==
    /\ op.pc = "off_delete"
    /\ store' = [store EXCEPT ![OffDeleteStore(op.hasCacheOption)] =
                    @ \ {OffDeleteKey(op.request, op.cacheKey)}]
    /\ op' = [op EXCEPT !.pc = "miss_handler"]
    /\ UNCHANGED <<outerVars, faults, tagIndex, prev>>

\* handlers.ts lines 144-147: the origin handler is invoked in miss mode;
\* stores0 is history: the stores at the invocation
OffHandlerCall ==
    /\ op.pc = "miss_handler"
    /\ op' = [op EXCEPT !.pc = "w_put", !.stores0 = store]
    /\ UNCHANGED <<outerVars, faults, tagIndex, store, prev>>

\* writeToCache: cache.put(cacheKey, ...) on getCache(options); the handler's
\* response sets no vary rule of its own
OffWrite ==
    /\ op.pc = "w_put"
    /\ store' = [store EXCEPT ![getCache(op.hasCacheOption)] =
                    @ \cup {defaultGetCacheKey(op.request, op.vary)}]
    /\ op' = [op EXCEPT !.pc = "done"]
    /\ UNCHANGED <<outerVars, faults, tagIndex, prev>>

NextOff ==
    \/ OffRead
    \/ OffPolicyDelete
    \/ OffHandlerCall
    \/ OffWrite

SpecOff == InitOff /\ [][NextOff]_vars

(***************************************************************************)
(* Claims about the metadata index (SpecMeta)                              *)
(***************************************************************************)

\* C1: when the concurrent updaters of the same tag, each adding its own
\* cache key, have all returned, the tag's key-set holds every updater's key
C1_NoKeyLost ==
    (\A w \in Writers : wpc[w] = "returned")
        => \A w \in Writers : Includes(KeySet("t"), KeyOf(w))

\* C2: an update whose every attempt failed to acquire the lock ends by
\* raising, and an update returns normally only after its index put succeeded
C2_ExhaustedRaises ==
    \A w \in Writers :
        /\ (Finished(w) /\ progress[w] = "none") => wpc[w] = "raised"
        /\ wpc[w] = "returned" => progress[w] = "wrote"

\* C2 witness: an updater gave up after MAX_RETRY_ATTEMPTS failed acquires
C2_Witness ==
    \E w \in Writers :
        /\ wpc[w] = "raised"
        /\ progress[w] = "none"
        /\ attempt[w] = MAX_RETRY_ATTEMPTS

\* C3 (as claimed): when an update that acquired the lock has returned or
\* raised, the lock record it wrote has been deleted by its releaseLock
C3_LockAlwaysDeleted ==
    \A w \in Writers : Finished(w) => held[w] = "no"

\* C3 (amended): when an update that acquired the lock has returned or
\* raised, releaseLock has issued the delete of the lock record, and the
\* delete took effect unless the store raised on it
C3_ReleaseAlwaysCalled ==
    \A w \in Writers :
        /\ Finished(w) => held[w] \in {"no", "leaked"}
        /\ (Finished(w) /\ faults = 0) => held[w] = "no"

\* C3 witness: an update acquired the lock, failed inside the update cycle,
\* raised, and its lock record was deleted on the way out
C3_Witness ==
    \E w \in Writers :
        /\ wpc[w] = "raised"
        /\ progress[w] = "acquired"
        /\ held[w] = "no"
        /\ faults > 0

\* updater w is between a successful tryAcquireLock and the end of its own
\* releaseLock
InCriticalSection(w) == held[w] \in {"yes", "releasing"}

\* C25: at no time are two updaters of the index both between a successful
\* lock acquire and their own lock release
C25_MutualExclusion ==
    \A w1, w2 \in Writers :
        (w1 # w2) => ~(InCriticalSection(w1) /\ InCriticalSection(w2))

\* C28: a step of releaseLock that deletes the lock record deletes a record
\* that the releasing updater wrote
C28_ReleaseOwnLockOnly ==
    [][\A w \in Writers :
          (/\ wpc[w] = "release"
           /\ wpc'[w] # "release"
           /\ lockRec.present
           /\ ~lockRec'.present) => lockRec.pid = w]_vars

\* updater w takes the step that ends its await of position
StepFrom(w, position) == wpc[w] = position /\ wpc'[w] # position

\* the record a successful acquire of w writes: the time of the attempt and
\* w's own token
NewLock(w, rec) == rec.present /\ rec.pid = w

\* C29 (as stated): an acquire attempt goes on to write a new lock record,
\* stamped with the current time and its own token, exactly when it found
\* no lock record or one at least 5000 ms old; it then succeeds and the
\* record is in the store; otherwise it fails and the lock record is as it
\* was
C29_AcquireIff ==
    [][\A w \in Writers :
          /\ StepFrom(w, "acq_match") =>
                 IF lockRec.present
                 THEN wpc'[w] = "acq_json" /\ lockRec' = lockRec
                 ELSE /\ wpc'[w] = "acq_put"
                      /\ NewLock(w, lockData'[w])
                      /\ lockData'[w].timestamp = now
          /\ StepFrom(w, "acq_json") =>
                 /\ lockRec' = lockRec
                 /\ IF now - seenLock[w].timestamp >= 5000
                    THEN /\ wpc'[w] = "acq_put"
                         /\ NewLock(w, lockData'[w])
                         /\ lockData'[w].timestamp = now
                    ELSE wpc'[w] = "sleep_retry"
          /\ StepFrom(w, "acq_put") =>
                 /\ lockRec' = lockData[w]
                 /\ wpc'[w] = "read_meta"]_vars

\* C29 (amended): the same, unless a store operation of the attempt raises:
\* then the attempt reports failure, whatever lock record exists, and the
\* lock record is as it was
C29_AcquireIffNoStoreFailure ==
    [][\A w \in Writers :
          /\ StepFrom(w, "acq_match") =>
                 IF faults' # faults
                 THEN wpc'[w] = "sleep_retry" /\ lockRec' = lockRec
                 ELSE IF lockRec.present
                 THEN wpc'[w] = "acq_json" /\ lockRec' = lockRec
                 ELSE /\ wpc'[w] = "acq_put"
                      /\ NewLock(w, lockData'[w])
                      /\ lockData'[w].timestamp = now
          /\ StepFrom(w, "acq_json") =>
                 /\ lockRec' = lockRec
                 /\ IF now - seenLock[w].timestamp >= 5000
                    THEN /\ wpc'[w] = "acq_put"
                         /\ NewLock(w, lockData'[w])
                         /\ lockData'[w].timestamp = now
                    ELSE wpc'[w] = "sleep_retry"
          /\ StepFrom(w, "acq_put") =>
                 IF faults' # faults
                 THEN wpc'[w] = "sleep_retry" /\ lockRec' = lockRec
                 ELSE lockRec' = lockData[w] /\ wpc'[w] = "read_meta"]_vars

\* an updater holds a lock record it wrote over one that was 5000 ms old,
\* left behind by an updater whose release failed
C29_Witness ==
    \E w1, w2 \in Writers :
        /\ w1 # w2
        /\ lockRec = [present |-> TRUE, timestamp |-> METADATA_LOCK_TIMEOUT,
                      pid |-> w1]
        /\ now = METADATA_LOCK_TIMEOUT
        /\ held[w1] = "yes"
        /\ held[w2] = "leaked"

\* updater w is in one of the two sleeps of the retry loop
Sleeping(w) == wpc[w] \in {"sleep_retry", "sleep_err"}

\* the number of attempts updater w has begun: the catch block has already
\* counted the attempt that failed when its sleep starts
AttemptsBegun(w) == IF wpc[w] = "sleep_err" THEN attempt[w] ELSE attempt[w] + 1

\* C30 (as stated): every update call terminates after at most 5 attempts,
\* sleeping between attempts with a delay of 10 ms after the first attempt
\* that doubles with each attempt, and ends with the index written or with
\* an error raised
C30_TerminatesBackoffFromTen ==
    /\ [](\A w \in Writers :
            /\ attempt[w] <= 5
            /\ Sleeping(w) =>
                   /\ AttemptsBegun(w) < 5
                   /\ delay[w] = 10 * Pow2(AttemptsBegun(w) - 1)
            /\ wpc[w] = "returned" => progress[w] = "wrote")
    /\ <>[](\A w \in Writers : Finished(w))

\* C30 (amended): every update call terminates after at most 5 attempts and
\* ends with the index written or with an error raised; each sleep lasts
\* 10 * 2^attempt ms for the value of the attempt counter when the sleep
\* starts: after a failed acquire the counter is the number of earlier
\* attempts (10 ms after the first, and a sleep of 160 ms follows the fifth),
\* after an exception the failed attempt is already counted (20 ms after
\* the first, and no sleep follows the fifth)
C30_TerminatesBackoffByCounter ==
    /\ [](\A w \in Writers :
            /\ attempt[w] <= 5
            /\ wpc[w] = "sleep_retry" =>
                   /\ AttemptsBegun(w) <= 5
                   /\ delay[w] = 10 * Pow2(AttemptsBegun(w) - 1)
            /\ wpc[w] = "sleep_err" =>
                   /\ AttemptsBegun(w) < 5
                   /\ delay[w] = 10 * Pow2(AttemptsBegun(w))
            /\ wpc[w] = "returned" => progress[w] = "wrote")
    /\ <>[](\A w \in Writers : Finished(w))

\* one updater has written the index and returned; another has raised after
\* its fifth attempt
C30_Witness ==
    \E w1, w2 \in Writers :
        /\ wpc[w1] = "returned" /\ progress[w1] = "wrote"
        /\ wpc[w2] = "raised" /\ attempt[w2] = MAX_RETRY_ATTEMPTS

\* C37: an updater that holds the lock and reads an absent or unparseable
\* index record goes on, without raising, from the empty map to the map
\* that holds its own key under its tags, and the write that follows stores
\* a parseable index with that key (each step taken without a store failure)
C37_CorruptIndexSelfHeals ==
    [][\A w \in Writers :
          /\ (/\ StepFrom(w, "read_meta")
              /\ tagIndex.state # "ok"
              /\ faults' = faults) =>
                 /\ wpc'[w] = "write_meta"
                 /\ updatedData'[w] = [t \in Tags |-> <<KeyOf(w)>>]
          /\ (/\ StepFrom(w, "write_meta")
              /\ faults' = faults) =>
                 /\ tagIndex'.state = "ok"
                 /\ \A t \in Tags : Includes(tagIndex'.map[t], KeyOf(w))
                 /\ ~failed'[w]]_vars

\* an updater has read the unparseable record and is about to write the
\* index built from the empty map
C37_Witness ==
    \E w \in Writers :
        /\ wpc[w] = "write_meta"
        /\ tagIndex.state = "corrupt"
        /\ held[w] = "yes"
        /\ updatedData[w] = [t \in Tags |-> <<KeyOf(w)>>]

(***************************************************************************)
(* Claims about the unified handler (SpecHandle)                           *)
(***************************************************************************)

\* the entry that request r's cache.match returned had expired at the time
\* of the read and the read fell inside its stale-while-revalidate window
StalePre(r) ==
    /\ snap[r].present
    /\ snap[r].expires # -1
    /\ readAt[r] >= snap[r].expires
    /\ snap[r].cc.swr > 0
    /\ readAt[r] < snap[r].expires + snap[r].cc.swr * 1000

\* the entry that request r's cache.match returned had expired at the time
\* of the read and the read fell outside any stale-while-revalidate window
ExpiredPre(r) ==
    /\ snap[r].present
    /\ snap[r].expires # -1
    /\ readAt[r] >= snap[r].expires
    /\ ~(snap[r].cc.swr > 0
         /\ readAt[r] < snap[r].expires + snap[r].cc.swr * 1000)

\* C4 (as stated): a read of a stored entry at a time at or after its expiry
\* and inside its stale-while-revalidate window returns the stored entry
\* with needsBackgroundRevalidation = true and does not delete the entry
C4_StaleInWindow ==
    \A r \in Req : StalePre(r) =>
        /\ readOut[r] = "entry"
        /\ needsBG[r]
        /\ ~readDeleted[r]

\* C4 (amended): such a read never deletes the entry; it returns the stored
\* entry with needsBackgroundRevalidation = true unless the request's
\* conditional headers match the entry's validators, in which case it
\* returns a 304 with needsBackgroundRevalidation = false
C4_StaleInWindowOr304 ==
    \A r \in Req : StalePre(r) =>
        /\ ~readDeleted[r]
        /\ pc[r] # "read_delete"
        /\ IF validateConditionalRequest(hdrs[r], snap[r])
           THEN readOut[r] = "304" /\ ~needsBG[r]
           ELSE readOut[r] = "entry" /\ needsBG[r]

C4_Witness ==
    \E r \in Req :
        /\ StalePre(r)
        /\ readAt[r] > snap[r].expires
        /\ readOut[r] = "entry"
        /\ needsBG[r]
        /\ entry = snap[r]

C6_FlagOnlyStaleWithout304 ==
    \A r \in Req : needsBG[r] => StalePre(r) /\ readOut[r] = "entry"

C6_Witness ==
    \E r \in Req : StalePre(r) /\ readOut[r] = "304" /\ ~needsBG[r]

\* C7: while a background revalidation (the origin handler call or the
\* cache write after it) is in progress, the request that started it has
\* already been answered with the stale entry
C7_StaleServedWithoutWaiting ==
    \A r \in Req :
        pc[TaskOf(r)] \in {"t_handler", "w_put", "w_tags"} =>
            pc[r] = "done" /\ result[r] = Stale(snap[r])

C7_Witness ==
    \E r \in Req :
        /\ cfg.policy = "background"
        /\ StalePre(r)
        /\ pc[TaskOf(r)] = "w_put"
        /\ pc[r] = "done"

\* C8 (as stated): under the background policy with a handler configured,
\* every hit inside the stale-while-revalidate window invokes the handler
\* exactly once (mode stale, background true) and submits exactly one task
C8_EveryStaleHitRevalidates ==
    (cfg.policy = "background" /\ cfg.hasHandler) =>
        \A r \in Req : StalePre(r) =>
            /\ calls[r] = <<Invocation("stale", TRUE)>>
            /\ sched[r] + micro[r] = 1

\* C8 (amended): under the background policy with a handler configured,
\* every hit inside the stale-while-revalidate window that is not answered
\* with a 304 invokes the handler exactly once (mode stale, background true)
\* and submits the task exactly once: to the scheduler when one is supplied,
\* otherwise with queueMicrotask
C8_OneRevalidationUnless304 ==
    (cfg.policy = "background" /\ cfg.hasHandler) =>
        \A r \in Req : (StalePre(r) /\ readOut[r] = "entry") =>
            /\ calls[r] = <<Invocation("stale", TRUE)>>
            /\ sched[r] = (IF cfg.hasScheduler THEN 1 ELSE 0)
            /\ micro[r] = (IF cfg.hasScheduler THEN 0 ELSE 1)

C8_Witness ==
    \E r \in Req :
        /\ cfg.policy = "background" /\ cfg.hasHandler /\ cfg.hasScheduler
        /\ StalePre(r)
        /\ readOut[r] = "entry"
        /\ sched[r] = 1
        /\ pc[TaskOf(r)] = "t_done"

\* C9: when a background revalidation task has failed, the request that
\* started it was answered with the stale entry and the task has not
\* replaced the entry in the store
C9_FailedTaskLeavesEntry ==
    \A r \in Req : pc[TaskOf(r)] = "t_failed" =>
        /\ pc[r] = "done"
        /\ result[r] = Stale(snap[r])
        /\ ~taskPut[r]

\* C10: under the blocking policy, when the origin handler throws while
\* revalidating a hit inside the stale-while-revalidate window, the request
\* is answered with the stale entry
C10_BlockingFallsBackToStale ==
    cfg.policy = "blocking" =>
        \A r \in Req : (StalePre(r) /\ threw[r]) =>
            pc[r] = "done" /\ result[r] = Stale(snap[r])

C10_Witness ==
    \E r \in Req :
        /\ cfg.policy = "blocking"
        /\ StalePre(r)
        /\ calls[r] = <<Invocation("stale", FALSE)>>
        /\ threw[r]
        /\ pc[r] = "done"
        /\ result[r] = Stale(snap[r])

C12_FreshUntilTtl ==
    \A r \in Req :
        (/\ snap[r].present
         /\ snap[r].ttlEnd # -1
         /\ readAt[r] < snap[r].ttlEnd
         /\ ~validateConditionalRequest(hdrs[r], snap[r])) =>
            /\ readOut[r] = "entry"
            /\ ~needsBG[r]
            /\ ~readDeleted[r]

\* C13: a response whose caching directives carry max-age=0, no-store or
\* private is not put into the store, whatever its other headers and the
\* configuration
C13_NeverPersisted ==
    (/\ fout # <<>>
     /\ WinningDirectives.present
     /\ \/ WinningDirectives.maxAge = 0
        \/ WinningDirectives.noStore
        \/ WinningDirectives.private) => ~fout.shouldCache

FreshPre(r) ==
    /\ snap[r].present
    /\ ~(snap[r].expires # -1 /\ readAt[r] >= snap[r].expires)

\* request r carries an If-None-Match list, and one of its ETags has the
\* value of the ETag of the entry that r's cache.match returned
SentIfNoneMatch(r) == hdrs[r].inm = "list" /\ hdrs[r].ims = -1
IfNoneMatchEqual(r) ==
    /\ snap[r].etag # NoETag
    /\ \E i \in 1..Len(hdrs[r].etags) :
           hdrs[r].etags[i].value = snap[r].etag.value

C32_ReadKeepsFreshEntry ==
    [][\A r \in Req :
          (/\ pc[r] = "read_delete"
           /\ pc'[r] # "read_delete"
           /\ entry.present
           /\ ~IsExpired(entry, now)) => entry'.present]_vars

\* the headers and body of stored entry e are those of response x
WholeResponse(e, x) ==
    /\ e.body = x.body
    /\ e.cc = x.cc
    /\ e.etag = x.etag
    /\ e.tags = x.tags

\* writeToCache of thread th returns the response, in the step being taken
WriteReturns(th) ==
    /\ pc'[th] = WriteEnd(th, resp[th]).pc
    /\ th \in Req => result'[th] = WriteEnd(th, resp[th]).result

KeysAtCall(o) == o.metadata[o.arg]

C16_ScenarioD ==
    \A k1, k2 \in Keys :
        (/\ k1 # k2
         /\ op.kind = "tag" /\ op.arg = "x" /\ op.pc = "returned"
         /\ op.store0[k1] = Stored({"x"})
         /\ op.store0[k2] = Stored({"x", "y"})
         /\ op.metadata["x"] = <<k1, k2>>
         /\ op.metadata["y"] = <<k2>>) =>
            /\ ~store[k1].present
            /\ ~store[k2].present
            /\ IndexKeySet("y") = <<>>

\* C17: of two calls of invalidateByTag for the same tag, one right after
\* the other, where at the first call some key of the tag's key-set is
\* stored, the first returns a nonzero count and the second returns zero
C17_SecondInvalidationZero ==
    (/\ op.kind = "tag" /\ op.pc = "returned"
     /\ prev.kind = "tag" /\ prev.pc = "returned"
     /\ prev.arg = op.arg
     /\ \E i \in 1..Len(KeysAtCall(prev)) :
            prev.store0[KeysAtCall(prev)[i]].present) =>
        prev.ret > 0 /\ op.ret = 0

C17_Witness ==
    /\ op.kind = "tag" /\ op.pc = "returned"
    /\ prev.kind = "tag" /\ prev.pc = "returned"
    /\ prev.arg = op.arg
    /\ prev.ret > 0
    /\ op.ret = 0

\* key k is referenced by the index that the invalidateByPath o read and
\* its path equals the argument or starts with the argument followed by "/"
Targeted(o, k) ==
    /\ \E t \in InvTags : Includes(o.metadata[t], k)
    /\ \/ k = o.arg
       \/ StartsWith(k, Append(o.arg, "/"))

C31_TaggedEntriesIndexed ==
    op.pc \in {"returned", "raised"} =>
        \A k \in Keys : \A t \in store[k].tags :
            store[k].present => Includes(IndexKeySet(t), k)

\* C35: invalidateByTag(t) removes from the store only entries whose
\* cache-tag header listed t when it was called
C35_OnlyCurrentlyTagged ==
    op.kind = "tag" =>
        \A k \in Keys :
            (op.store0[k].present /\ ~store[k].present) =>
                op.arg \in op.store0[k].tags

\* the write that just returned repeats the write before it: same key, same
\* tags, and that one returned as well
RepeatedWrite(o, before) ==
    /\ o.kind = "write" /\ before.kind = "write"
    /\ before.pc = "returned"
    /\ o.arg = before.arg /\ o.tags = before.tags
    /\ o.tags # {}

NoDuplicates(seq) == \A i, j \in 1..Len(seq) : seq[i] = seq[j] => i = j

\* C38: no key-set of the index holds a key twice, and the tag update of a
\* write that repeats the previous write leaves the index as it is
C38_TagUpdateIdempotent ==
    /\ [](\A t \in InvTags : NoDuplicates(IndexKeySet(t)))
    /\ [][(op.pc = "w_tags" /\ RepeatedWrite(op, prev)) =>
             tagIndex' = tagIndex]_vars

\* a write of a tagged entry was repeated and both writes returned
C38_Witness ==
    /\ RepeatedWrite(op, prev)
    /\ op.pc = "returned"
    /\ \A t \in op.tags : Includes(IndexKeySet(t), op.arg)

(***************************************************************************)
(* Claims about the cache key (SpecKey)                                    *)
(***************************************************************************)

\* C20: two GET requests that are identical except in one header, cookie or
\* query parameter that the active vary rule does not list have equal cache
\* keys
C20_UnlistedDimensionIgnored ==
    (/\ fout # <<>>
     /\ fin.vary.present
     /\ fin.dim.name \notin ListedNames(fin.vary, fin.dim)) =>
        fout[1] = fout[2]

C20_Witness ==
    /\ fout # <<>>
    /\ fin.vary.present
    /\ fin.vary.query = {"q"}
    /\ fin.vary.headers # {} /\ fin.vary.cookies # {}
    /\ fin.dim = [kind |-> "query", name |-> "p"]
    /\ searchParamsGet(fin.r1.query, "p") # searchParamsGet(fin.r2.query, "p")
    /\ searchParamsGet(fin.r1.query, "q") = "1"
    /\ fout[1] = fout[2]

\* what request carries in dimension d: the values of the query parameters
\* so named, in URL order, or the value of the header or of the cookie
DimensionValue(request, d) ==
    IF d.kind = "query"
    THEN LET hits == SelectSeq(request.query, LAMBDA e : e.name = d.name)
         IN  [i \in 1..Len(hits) |-> hits[i].value]
    ELSE IF d.kind = "header" THEN request.headers[d.name]
    ELSE request.cookies[d.name]

\* C21: two GET requests that differ only in one header, cookie or query
\* parameter that the active vary rule lists have different cache keys
C21_ListedDimensionDistinguishes ==
    (/\ fout # <<>>
     /\ fin.vary.present
     /\ fin.dim.name \in ListedNames(fin.vary, fin.dim)
     /\ DimensionValue(fin.r1, fin.dim) # DimensionValue(fin.r2, fin.dim)) =>
        fout[1] # fout[2]

(***************************************************************************)
(* Claims about the entry points (SpecEntry)                               *)
(***************************************************************************)

\* C22: a call with a non-GET request never changes the store or the tag
\* index; readFromCache returns null, writeToCache returns the response,
\* and handle() invokes the origin handler once, directly, and returns its
\* response (or answers 500 when no handler is configured)
C22_NonGetNeverCached ==
    (op.entry # "none" /\ op.method # "GET") =>
        /\ store = op.store0
        /\ tagIndex = op.index0
        /\ op.entry = "read" => (op.pc = "returned" /\ op.out = "null")
        /\ op.entry = "write" => (op.pc = "returned" /\ op.out = "response")
        /\ op.entry = "handle" =>
               IF op.hasHandler
               THEN /\ op.called = 1
                    /\ \/ op.pc = "h_direct"
                       \/ op.pc = "raised"
                       \/ op.pc = "returned" /\ op.out = "origin"
               ELSE op.called = 0 /\ op.pc = "returned" /\ op.out = "500"

C22_Witness ==
    /\ op.entry = "handle"
    /\ op.method = "POST"
    /\ store[op.key].present
    /\ op.pc = "returned"
    /\ op.out = "origin"
    /\ op.called = 1

\* the tag list fails validation as the claim words it: more than 100
\* tags, or a tag that is empty, longer than 100 characters, or contains
\* <, > or a double quote
FailsValidation(tags) ==
    \/ Len(tags.items) + tags.filler > MAX_TAGS
    \/ \E i \in 1..Len(tags.items) :
           \/ tags.items[i].length = 0
           \/ tags.items[i].length > MAX_TAG_LENGTH
           \/ tags.items[i].forbidden

InvalidationHoldsLock == lockRec.present /\ lockRec.pid \notin Writers

\* the step in which an invalidation writes the index back
IndexRewrite == op.pc = "t_put" /\ tagIndex' # tagIndex

\* C26: every step in which an invalidation rewrites the tag index is taken
\* while the invalidation holds the index's lock
C26_InvalidationUnderLock ==
    [][IndexRewrite => InvalidationHoldsLock]_vars

\* C27: the index rewrite of invalidateByTag("x") does not lose a key that a
\* concurrent write has added to the key-set of the other tag "t": every
\* key in that key-set before the rewrite is in it afterwards
C27_ConcurrentTagUpdateKept ==
    [][IndexRewrite =>
          \A w \in Writers :
              Includes(KeySet("t"), KeyOf(w)) =>
                  Includes(KeySet("t")', KeyOf(w))]_vars


(***************************************************************************)
(* Claims about the vary index (SpecVary)                                  *)
(***************************************************************************)

\* the entries of the index the last update read that its write dropped
Evicted == SelectSeq(fout.before,
               LAMBDA e : \A i \in 1..Len(fin) : fin[i].url # e.url)

\* C36: after an update that returned, the index holds at most the maximum
\* number of entries, among them the entry just written with the time of
\* the write, and no evicted entry is younger than an entry that was kept
C36_VaryIndexBounded ==
    /\ Len(fin) <= MaxVaryEntries
    /\ fout.pc = "returned" =>
           /\ \E i \in 1..Len(fin) : fin[i] = VaryEntry(fout.url, fout.at)
           /\ \A i \in 1..Len(Evicted) : \A j \in 1..Len(fin) :
                  Evicted[i].timestamp <= fin[j].timestamp
           /\ \A i \in 1..Len(fout.before) :
                  fout.before[i].url # fout.url =>
                      \/ \E j \in 1..Len(fin) : fin[j] = fout.before[i]
                      \/ Len(fin) = MaxVaryEntries

\* the index was full, the update wrote a new url and an entry was evicted
\* that is strictly older than another entry that was kept
C36_Witness ==
    /\ fout.pc = "returned"
    /\ Len(fout.before) = MaxVaryEntries
    /\ Len(Evicted) = 1
    /\ \E j \in 1..Len(fin) :
           /\ fin[j].url # fout.url
           /\ Evicted[1].timestamp < fin[j].timestamp

(***************************************************************************)
(* Claims about conditional requests (SpecConditional)                     *)
(***************************************************************************)

\* C39: for a request with If-None-Match: * the validator reports
\* shouldReturn304 = true, whatever the stored response is
C39_WildcardAlwaysMatches ==
    (fout # <<>> /\ fin.request.inm = "star") => fout.shouldReturn304

(***************************************************************************)
(* Claims about key collisions (SpecCollision)                             *)
(***************************************************************************)

\* the key of the second request has vary segments: the rule lists a header
\* or a cookie
VaryQualified == fin.vary.headers \cup fin.vary.cookies # {}

\* C40: a request keyed without a vary rule never has the key that a
\* different request has with its vary segments
C40_NoBareVariedCollision ==
    (fout # <<>> /\ VaryQualified /\ fin.r1 # fin.r2) => fout[1] # fout[2]

(***************************************************************************)
(* Claims about the off policy's delete (SpecOff)                          *)
(***************************************************************************)

\* C33: when the origin handler is invoked under the off policy, the stale
\* entry is no longer in the store it was read from, under the cache key
\* it was read with
C33_OffDeletesReadEntry ==
    op.pc \in {"w_put", "done"} =>
        op.cacheKey \notin op.stores0[getCache(op.hasCacheOption)]
====
